---- MODULE Spec2Model ----
(***************************************************************************)
(* Model of the transcription orchestration of WhisperCC_MacOS_Local:      *)
(* module1_transcribe/__init__.py.  One job thread runs transcribe_audio   *)
(* (single-shot) or transcribe_audio_chunked; each recognizer invocation   *)
(* starts a child process whose two output pipes are drained by two        *)
(* _stream_reader threads into one queue read by the consumer loop; a      *)
(* second thread may call cancel_current_transcription at any moment.      *)
(* Python statements are the atomic steps (the interpreter lock makes a    *)
(* read or a write of a module global atomic).                             *)
(***************************************************************************)
EXTENDS Integers, Sequences, FiniteSets, TLC

\* ---------------------------------------------------------------- bounds
MaxLines == 1       \* lines a child writes per channel, at most
PipeCap == 1        \* lines an OS pipe holds before the child's write blocks
MaxChunks == 2      \* chunks of a chunked job, at most
MaxCancels == 2     \* calls of cancel_current_transcription, at most
MaxSrtSegments == 2 \* segments of a transcript rendered as subtitles, at most
MaxWords == 2       \* words of one segment, at most
MaxTexts == 3        \* chunk texts handed to one merge, at most
MaxTextWords == 2   \* words of one chunk text, at most
MaxSegments == 1    \* segments the recognizer produces for one chunk, at most
ChunkSeconds == 2   \* distance between the start times of two consecutive chunks
MaxObservers == 3   \* websocket connections to /ws/progress, at most
MaxEvents == 2      \* events published to the progress handler, at most

\* ------------------------------------------------------------- constants
\* the limits and defaults of the subtitle parameters; durations in tenths of a second
MinChars == 20
MaxChars == 120
DefaultChars == 40
MinDuration == 10
MaxDuration == 100
DefaultDuration == 15
SIGTERM == 15
SIGKILL == 9

Channels == {"stdout", "stderr"}
\* a line without and a line with a bracketed percentage marker
Lines == {"text", "[ 50%]"}

\* Python's None, and a present value
None == <<>>
Some(x) == <<x>>
Val(o) == o[1]

\* A request: whether the output format and the model name are members of their
\* enums, whether the source file exists and is an Opus file, whether probing its
\* duration fails, whether the configuration has an "output" and a "chunking"
\* section, and whether a recognizer binary can be found.
Requests ==
    [format_known : BOOLEAN, model_known : BOOLEAN, audio_exists : BOOLEAN,
     opus : BOOLEAN, probe_fails : BOOLEAN, has_output : BOOLEAN,
     has_chunking : BOOLEAN, binary_found : BOOLEAN]

\* the request of a job that nothing prevents from reaching the recognizer
ValidRequest ==
    [format_known |-> TRUE, model_known |-> TRUE, audio_exists |-> TRUE,
     opus |-> FALSE, probe_fails |-> FALSE, has_output |-> TRUE,
     has_chunking |-> TRUE, binary_found |-> TRUE]

VARIABLES
    procs,          \* the child processes started so far (Popen objects + OS state)
    current_transcription_process,  \* module global: None or Some(index into procs)
    cancellation_requested,         \* module global
    txtFile,        \* temp_dir/output.txt: None, or Some(p) when invocation p wrote it
    toWrite,        \* lines the running child still has to write, per channel
    pipe,           \* the OS pipe of each channel
    rd,             \* state of each _stream_reader thread
    output_queue,   \* queue.Queue(): items <<stream_name, None | Some(line)>>
    putLog,         \* history: per reader, the items it has put on the queue
    streams_done,   \* consumer's dict
    stdout,         \* consumer's list of stdout lines
    stderr,         \* consumer's list of stderr lines
    pc,             \* position of the job thread
    process,        \* local of transcribe_audio: index of the Popen object
    timedOut,       \* history: the wall-clock timeout fired in this invocation
    events,         \* everything handed to publish(), in order
    result,         \* what the last transcribe_audio call returned (None while running)
    jobKind,        \* input: "single" | "chunked"
    nChunks,        \* input: number of chunks split_audio returns
    chunkIdx,       \* loop variable i of transcribe_audio_chunked (0-based)
    chunk_transcriptions, \* list built by transcribe_audio_chunked
    chunkResults,   \* history: the result of each chunk's transcribe_audio call
    jobResult,      \* what the top-level call returned (None while running)
    cpc,            \* position of the cancelling thread
    cancelCalls,    \* number of cancel calls started
    pendingBefore,  \* history: cancellation_requested when the current call began
    cTarget,        \* history: the process the current call found alive
    cOps,           \* history: process operations of the current cancel call
    cancelLog,      \* history: one record per returned cancel call
    cleanup,        \* history: the cleanup_after_transcription attempts of the current
                    \* transcribe_audio call, each TRUE when it raised
    chunkCleanups,  \* history: number of chunker.cleanup_chunks calls of the job
    request,        \* input: what the caller passed and what the machine provides
    converters,     \* history: number of converter (ffmpeg) child processes started
    chunksCreated,  \* history: number of chunk working files split_audio created
    all_segments,   \* transcribe_audio_chunked: the adjusted segments collected so far
    recognized,     \* history: per chunk, the segments the recognizer produced for it
    progress_websockets,  \* web module global: the set of registered websockets
    last_progress_data,   \* web module global: None or Some(payload)
    hpc,            \* progress_event_handler: "idle", "sending" or "raised"
    current_sockets,      \* handler: the sockets of its copy still to be served
    message,        \* handler: None or Some(payload being broadcast)
    ws,             \* per websocket: "new", "accepted", "listening" or "closed"
    alive,          \* per websocket: whether a send to it succeeds
    received,       \* history: per websocket, the payloads delivered to its client
    sent_events,    \* history: the payloads published so far
    joinedAt,       \* history: per websocket, Len(sent_events) when it was registered
    snapshot,       \* history: the handler's copy of the registry at its last broadcast
    failed,         \* history: the websockets a send of the handler raised on
    removed,        \* history: the websockets the handler removed from the registry
    config_chunking,      \* config["chunking"] of the caller's configuration object:
                          \* "absent", or its "enabled" entry: "unset", "on", "off"
    chunkable,      \* is_audio_chunkable(audio_path, config) for the job's file
    call_args,      \* None, or Some(what a caller was given and what it passed on as
                    \* srt_max_chars and srt_max_duration to transcribe_audio)
    segments,       \* input: json_output["segments"], the transcript's segments
    srt_max_chars,  \* input: the character bound given to segments_to_srt
    srt_max_duration,     \* input: the duration bound given to segments_to_srt
    srt_content,    \* None, or Some(the cues written to the SRT file)
    chunk_texts,    \* input: the texts of the chunks handed to merge_transcriptions
    merged_text,    \* None, or Some(the text merge_transcriptions returned)
    canc_pc,        \* per concurrent cancel call: its position
    canc_out,       \* per concurrent cancel call: None, or Some(how it ended)
    canc_case,      \* history: per concurrent cancel call, what it began in
    handlers,       \* event bus: per event kind, the handlers subscribed, in order
    to_invoke       \* event bus: the handlers publish() has still to call for the
                    \* event it is handing out

pumpVars == <<toWrite, pipe, rd, output_queue, putLog, streams_done, stdout, stderr>>
jobVars == <<pc, process, timedOut, result, jobKind, nChunks, chunkIdx,
             chunk_transcriptions, chunkResults, jobResult>>
cancelVars == <<cpc, cancelCalls, pendingBefore, cTarget, cOps, cancelLog>>
cleanupVars == <<cleanup, chunkCleanups>>
Observers == 1..MaxObservers

segmentVars == <<all_segments, recognized>>
configVars == <<config_chunking, chunkable>>
callerVars == <<call_args>>
formatVars == <<segments, srt_max_chars, srt_max_duration, srt_content>>
mergeVars == <<chunk_texts, merged_text>>
overlapVars == <<canc_pc, canc_out, canc_case>>
busVars == <<handlers, to_invoke>>
webVars == <<progress_websockets, last_progress_data, hpc, current_sockets, message,
             ws, alive, received, sent_events, joinedAt, snapshot, failed, removed>>
requestVars == <<request, converters, chunksCreated>>
vars == <<procs, current_transcription_process, cancellation_requested, txtFile,
          pumpVars, jobVars, events, cancelVars, cleanupVars, requestVars,
          segmentVars, webVars, configVars, callerVars, formatVars, mergeVars,
          overlapVars, busVars>>

\* ------------------------------------------------------------ processes
Running(p) == procs[p].st = "running"
Exited(p) == procs[p].st = "exited"

\* Popen.poll(): records the exit status in returncode once the child has exited
poll(ps, p) ==
    IF ps[p].returncode = None /\ ps[p].st = "exited"
    THEN [ps EXCEPT ![p].returncode = Some(ps[p].code)]
    ELSE ps

\* Popen.send_signal(): polls first, signals only a child not yet reaped as exited
send_signal(ps, p, sig) ==
    LET q == poll(ps, p) IN
    IF q[p].returncode = None
    THEN [q EXCEPT ![p].sigs = @ \cup {sig}]
    ELSE q

\* a published event: its kind (EventType, or the "type" of a CUSTOM event), the
\* chunk number and the progress value it carries (None when it carries none);
\* uid is its 'user_id' entry, None for an event published without one
Ev(type, chunk, progress) ==
    [type |-> type, chunk |-> chunk, progress |-> progress, uid |-> None]

\* the event kinds the web module subscribes its handler for
EventKinds == {"PROGRESS_UPDATE", "CUSTOM"}

\* subscribe(event_type, handler) of the event bus: the handler is added to the
\* handlers of that kind, which publish() calls in registration order; a handler
\* subscribed again is one more entry
subscribe(registry, kind, handler) == [registry EXCEPT ![kind] = Append(@, handler)]

\* web lines 164-166: importing the web module subscribes progress_event_handler
\* for PROGRESS_UPDATE and for CUSTOM
ImportWeb ==
    subscribe(subscribe([kind \in EventKinds |-> <<>>],
                        "PROGRESS_UPDATE", "progress_event_handler"),
              "CUSTOM", "progress_event_handler")

\* an event published with 'user_id': transcription_id, where the local variable
\* transcription_id was last assigned at the given line (440, 712 or 1026)
U(line, ev) == [ev EXCEPT !.uid = Some(line)]

\* str(uuid.uuid4()): every execution of an assignment yields a value of its own,
\* here the assigning line and the transcribe_audio call that executed it (0: the
\* caller's call, k: the call for chunk k)
Tag(evs, call) ==
    [i \in 1..Len(evs) |->
        IF evs[i].uid = None THEN evs[i]
        ELSE [evs[i] EXCEPT !.uid = Some(<<Val(evs[i].uid), call>>)]]

\* re.compile(r'\[(\s*)([0-9]+)%\]').search(line): None, or Some(the integer)
progress_pattern(line) == IF line = "[ 50%]" THEN Some(50) ELSE None

\* ------------------------------------------------- the child (environment)
\* The child writes one more line to a pipe that has room.
ChildWrite(ch, line) ==
    /\ process # None /\ Running(Val(process))
    /\ toWrite[ch] > 0
    /\ Len(pipe[ch]) < PipeCap
    /\ toWrite' = [toWrite EXCEPT ![ch] = @ - 1]
    /\ pipe' = [pipe EXCEPT ![ch] = Append(@, line)]
    /\ UNCHANGED <<procs, current_transcription_process, cancellation_requested,
                   txtFile, rd, output_queue, putLog, streams_done, stdout, stderr,
                   jobVars, events, cancelVars,
                   cleanupVars,
                   requestVars,
                   segmentVars,
                   webVars,
                   configVars,
                   callerVars,
                   formatVars, mergeVars,
                   overlapVars,
                   busVars>>

\* A child ends by itself (the job's current child once it has written all its
\* output; a child the job no longer reads at any time): exit code 0 or 1, having
\* written its transcript to temp_dir/output.txt or not.
ChildExit(p, code, wrote) ==
    /\ p \in 1..Len(procs) /\ Running(p)
    /\ process = Some(p) => \A ch \in Channels : toWrite[ch] = 0
    /\ procs' = [procs EXCEPT ![p].st = "exited", ![p].code = code, ![p].wrote = wrote]
    /\ txtFile' = IF wrote THEN Some(p) ELSE txtFile
    /\ UNCHANGED <<current_transcription_process, cancellation_requested,
                   pumpVars, jobVars, events, cancelVars,
                   cleanupVars,
                   requestVars,
                   segmentVars,
                   webVars,
                   configVars,
                   callerVars,
                   formatVars, mergeVars,
                   overlapVars,
                   busVars>>

\* A signalled child dies of the signal (SIGKILL cannot be ignored; a child may
\* ignore SIGTERM by never taking this step for it). Its unwritten output is lost.
ChildSignalled(p, sig) ==
    /\ p \in 1..Len(procs) /\ Running(p)
    /\ sig \in procs[p].sigs
    /\ procs' = [procs EXCEPT ![p].st = "exited", ![p].code = 0 - sig]
    /\ toWrite' = IF process = Some(p) THEN [ch \in Channels |-> 0] ELSE toWrite
    /\ UNCHANGED <<current_transcription_process, cancellation_requested, txtFile,
                   pipe, rd, output_queue, putLog, streams_done, stdout, stderr,
                   jobVars, events, cancelVars,
                   cleanupVars,
                   requestVars,
                   segmentVars,
                   webVars,
                   configVars,
                   callerVars,
                   formatVars, mergeVars,
                   overlapVars,
                   busVars>>

\* ------------------------------------------------------- _stream_reader
\* mutant: a queue created with a maxsize, whose put() blocks when it is full
QueueBounded(q) == Len(q) < 2

\* queue.Queue() has no maxsize: put() never blocks
QueueHasRoom(q) == TRUE

\* readline() returned a line: put((stream_name, line))
ReaderForward(ch) ==
    /\ rd[ch] = "run"
    /\ pipe[ch] # <<>>
    /\ QueueHasRoom(output_queue)
    /\ output_queue' = Append(output_queue, <<ch, Some(Head(pipe[ch]))>>)
    /\ putLog' = [putLog EXCEPT ![ch] = Append(@, Some(Head(pipe[ch])))]
    /\ pipe' = [pipe EXCEPT ![ch] = Tail(@)]
    /\ UNCHANGED <<procs, current_transcription_process, cancellation_requested,
                   txtFile, toWrite, rd, streams_done, stdout, stderr,
                   jobVars, events, cancelVars,
                   cleanupVars,
                   requestVars,
                   segmentVars,
                   webVars,
                   configVars,
                   callerVars,
                   formatVars, mergeVars,
                   overlapVars,
                   busVars>>

\* mutant: no finally clause, the reader ends without a sentinel
ReaderNoSentinel(ch) == <<>>

\* the items a reader puts when its loop ends: the finally clause's one sentinel
ReaderFinally(ch) == <<None>>

\* readline() returned '' (the child has exited and the pipe is drained), or raised:
\* the loop ends and the finally clause puts the sentinel (stream_name, None)
ReaderEnd(ch, raised) ==
    /\ rd[ch] = "run"
    /\ raised \/ (pipe[ch] = <<>> /\ process # None /\ Exited(Val(process)))
    /\ QueueHasRoom(output_queue)
    /\ output_queue' = output_queue \o [i \in 1..Len(ReaderFinally(ch)) |-> <<ch, ReaderFinally(ch)[i]>>]
    /\ putLog' = [putLog EXCEPT ![ch] = @ \o ReaderFinally(ch)]
    /\ rd' = [rd EXCEPT ![ch] = "dead"]
    /\ UNCHANGED <<procs, current_transcription_process, cancellation_requested,
                   txtFile, toWrite, pipe, streams_done, stdout, stderr,
                   jobVars, events, cancelVars,
                   cleanupVars,
                   requestVars,
                   segmentVars,
                   webVars,
                   configVars,
                   callerVars,
                   formatVars, mergeVars,
                   overlapVars,
                   busVars>>

\* Thread.is_alive(): the thread function has not returned yet
is_alive(ch) == rd[ch] = "run"

\* ----------------------------------------- transcribe_audio (single-shot)
\* a TranscriptionResult: success, the error (None on success) and the text
\* (None, or Some(p): the transcript invocation p wrote)
TranscriptionResult(success, error, text) ==
    [success |-> success, error |-> error, text |-> text]

\* where the job thread goes when transcribe_audio returns
Return == IF jobKind = "single" THEN "done" ELSE "chunk_ret"

\* lines 488-573 and 689-694: the progress events before the child is started
FrontEvents ==
    << U(440, Ev("PROGRESS_UPDATE", None, Some(0))), U(440, Ev("PROGRESS_UPDATE", None, Some(2))),
       Ev("TRANSCRIPTION_STARTED", None, None), U(440, Ev("PROGRESS_UPDATE", None, None)),
       U(440, Ev("PROGRESS_UPDATE", None, Some(5))), Ev("PROGRESS_UPDATE", None, Some(20)) >>

\* the transcribe_audio call the job thread is in: 0, or the chunk's number
CurrentCall == IF jobKind = "chunked" THEN chunkIdx + 1 ELSE 0

\* cleanup_after_transcription(audio_path, config), best-effort cleanup of the
\* working files: what is left of temp_dir/output.txt after the given attempts (each
\* TRUE when it raised). An attempt that does not raise removes the transcript, one
\* that raises leaves it.
CleanupEffect(txt, attempts) ==
    IF \E i \in 1..Len(attempts) : ~attempts[i] THEN None ELSE txt

\* the first n elements of a sequence
Prefix(seq, n) == SubSeq(seq, 1, n)

\* lines 489-577 of one transcribe_audio call: config["output"] at line 534 raises
\* KeyError outside any try block when the configuration has no output section;
\* get_whisper_binary_path at line 575 raises DependencyError inside the try block
EnterOutcome(req) ==
    IF ~req.has_output THEN "keyerror"
    ELSE IF ~req.binary_found THEN "dependency"
    ELSE "go"

\* lines 489-694 of one transcribe_audio call (the top-level call of a single-shot
\* job, or the call for a chunk): up to the start of the child, or up to the
\* exception. A KeyError leaves the top-level call; out of a chunk's call it lands
\* in the handler of transcribe_audio_chunked (lines 1218-1225). A DependencyError
\* is handled at lines 971-986: failure event, cleanup attempt, failed result.
TAEnter(cleanup_raised) ==
    /\ pc = "ta_enter"
    /\ LET o == EnterOutcome(request) IN
       CASE o = "keyerror" ->
              /\ cleanup' = <<>>
              /\ IF jobKind = "single"
                 THEN /\ events' = events \o Tag(Prefix(FrontEvents, 2), CurrentCall)
                      /\ pc' = "raised"
                      /\ UNCHANGED jobResult
                 ELSE /\ events' = events \o Tag(Prefix(FrontEvents, 2), CurrentCall)
                                     \o <<Ev("TRANSCRIPTION_FAILED", None, None)>>
                      /\ jobResult' = Some(TranscriptionResult(FALSE, Some("exception"), None))
                      /\ pc' = "done"
              /\ UNCHANGED <<result, txtFile>>
         [] o = "dependency" ->
              /\ events' = events \o Tag(Prefix(FrontEvents, 5), CurrentCall)
                              \o <<Ev("TRANSCRIPTION_FAILED", None, None)>>
              /\ cleanup' = <<cleanup_raised>>
              /\ txtFile' = CleanupEffect(txtFile, <<cleanup_raised>>)
              /\ result' = Some(TranscriptionResult(FALSE, Some("dependency"), None))
              /\ pc' = Return
              /\ UNCHANGED jobResult
         [] OTHER ->
              /\ events' = events \o Tag(FrontEvents, CurrentCall)
              /\ cleanup' = <<>>
              /\ pc' = "popen"
              /\ UNCHANGED <<result, jobResult, txtFile>>
    /\ UNCHANGED <<procs, current_transcription_process, cancellation_requested,
                   pumpVars, process, timedOut, jobKind, nChunks,
                   chunkIdx, chunk_transcriptions, chunkResults, cancelVars,
                   chunkCleanups, requestVars,
                   segmentVars,
                   webVars,
                   configVars,
                   callerVars,
                   formatVars, mergeVars,
                   overlapVars,
                   busVars>>

\* line 697: subprocess.Popen(cmd, stdout=PIPE, stderr=PIPE, ...); the child has
\* nOut and nErr lines to write
Popen(nOut, nErr) ==
    /\ pc = "popen"
    /\ procs' = Append(procs, [st |-> "running", code |-> 0, returncode |-> None,
                               sigs |-> {}, wrote |-> FALSE,
                               chunk |-> IF jobKind = "single" THEN 0 ELSE chunkIdx + 1])
    /\ process' = Some(Len(procs) + 1)
    /\ toWrite' = [ch \in Channels |-> IF ch = "stdout" THEN nOut ELSE nErr]
    /\ pipe' = [ch \in Channels |-> <<>>]
    /\ rd' = [ch \in Channels |-> "idle"]
    /\ pc' = "setslot"
    /\ UNCHANGED <<current_transcription_process, cancellation_requested, txtFile,
                   output_queue, putLog, streams_done, stdout, stderr, timedOut,
                   result, jobKind, nChunks, chunkIdx, chunk_transcriptions,
                   chunkResults, jobResult, events, cancelVars,
                   cleanupVars,
                   requestVars,
                   segmentVars,
                   webVars,
                   configVars,
                   callerVars,
                   formatVars, mergeVars,
                   overlapVars,
                   busVars>>

\* lines 707-744: the global slot is set, the queue is created, both readers start
SetSlot ==
    /\ pc = "setslot"
    /\ current_transcription_process' = process
    /\ output_queue' = <<>>
    /\ putLog' = [ch \in Channels |-> <<>>]
    /\ rd' = [ch \in Channels |-> "run"]
    /\ streams_done' = [ch \in Channels |-> FALSE]
    /\ stdout' = <<>>
    /\ stderr' = <<>>
    /\ timedOut' = FALSE
    /\ pc' = "loop"
    /\ UNCHANGED <<procs, cancellation_requested, txtFile, toWrite, pipe, process,
                   result, jobKind, nChunks, chunkIdx, chunk_transcriptions,
                   chunkResults, jobResult, events, cancelVars,
                   cleanupVars,
                   requestVars,
                   segmentVars,
                   webVars,
                   configVars,
                   callerVars,
                   formatVars, mergeVars,
                   overlapVars,
                   busVars>>

\* line 747: while not all(streams_done.values()) or not output_queue.empty()
LoopCond == (\E ch \in Channels : ~streams_done[ch]) \/ output_queue # <<>>

\* the events published for one consumed line (lines 780-812)
LineEvents(stream_name, line) ==
    IF stream_name = "stdout"
    THEN <<U(712, Ev("PROGRESS_UPDATE", None, None))>> \o
         (IF progress_pattern(line) # None
          THEN <<U(712, Ev("PROGRESS_UPDATE", None, progress_pattern(line)))>>
          ELSE <<>>)
    ELSE <<>>

\* lines 747-771: the loop condition is true and the timeout has not elapsed: the
\* consumer enters output_queue.get(timeout=0.1)
LoopGet ==
    /\ pc = "loop" /\ LoopCond
    /\ pc' = "get"
    /\ UNCHANGED <<procs, current_transcription_process, cancellation_requested,
                   txtFile, pumpVars, process, timedOut, result, jobKind, nChunks,
                   chunkIdx, chunk_transcriptions, chunkResults, jobResult, events,
                   cancelVars,
                   cleanupVars,
                   requestVars,
                   segmentVars,
                   webVars,
                   configVars,
                   callerVars,
                   formatVars, mergeVars,
                   overlapVars,
                   busVars>>

\* lines 771-812: output_queue.get(timeout=0.1) returned an item
ConsumeItem ==
    /\ pc = "get"
    /\ output_queue # <<>>
    /\ LET stream_name == Head(output_queue)[1]
           line == Head(output_queue)[2]
       IN /\ output_queue' = Tail(output_queue)
          /\ IF line = None
             THEN /\ streams_done' = [streams_done EXCEPT ![stream_name] = TRUE]
                  /\ UNCHANGED <<stdout, stderr, events>>
             ELSE /\ stdout' = IF stream_name = "stdout" THEN Append(stdout, Val(line)) ELSE stdout
                  /\ stderr' = IF stream_name = "stderr" THEN Append(stderr, Val(line)) ELSE stderr
                  /\ events' = events \o Tag(LineEvents(stream_name, Val(line)), CurrentCall)
                  /\ UNCHANGED streams_done
    /\ pc' = "loop"
    /\ UNCHANGED <<procs, current_transcription_process, cancellation_requested,
                   txtFile, toWrite, pipe, rd, putLog, process, timedOut, result,
                   jobKind, nChunks, chunkIdx, chunk_transcriptions, chunkResults,
                   jobResult, cancelVars,
                   cleanupVars,
                   requestVars,
                   segmentVars,
                   webVars,
                   configVars,
                   callerVars,
                   formatVars, mergeVars,
                   overlapVars,
                   busVars>>

\* lines 814-822, given that process.poll() is not None: leave the loop or not
EmptyBreaks == ~(is_alive("stdout") \/ is_alive("stderr"))

\* line 771: output_queue.get(timeout=0.1) found the queue empty for the whole
\* timeout and raises queue.Empty
GetEmpty ==
    /\ pc = "get"
    /\ output_queue = <<>>
    /\ pc' = "empty"
    /\ UNCHANGED <<procs, current_transcription_process, cancellation_requested,
                   txtFile, pumpVars, process, timedOut, result, jobKind, nChunks,
                   chunkIdx, chunk_transcriptions, chunkResults, jobResult, events,
                   cancelVars,
                   cleanupVars,
                   requestVars,
                   segmentVars,
                   webVars,
                   configVars,
                   callerVars,
                   formatVars, mergeVars,
                   overlapVars,
                   busVars>>

\* lines 814-822: the handler of queue.Empty polls the child and, if it has exited,
\* asks whether a reader thread is still alive: break, or continue
EmptyHandler ==
    /\ pc = "empty"
    /\ procs' = poll(procs, Val(process))
    /\ pc' = IF procs'[Val(process)].returncode # None /\ EmptyBreaks THEN "after" ELSE "loop"
    /\ UNCHANGED <<current_transcription_process, cancellation_requested, txtFile,
                   pumpVars, process, timedOut, result, jobKind, nChunks, chunkIdx,
                   chunk_transcriptions, chunkResults, jobResult, events, cancelVars,
                   cleanupVars,
                   requestVars,
                   segmentVars,
                   webVars,
                   configVars,
                   callerVars,
                   formatVars, mergeVars,
                   overlapVars,
                   busVars>>

\* line 747: the loop condition is false
LoopExit ==
    /\ pc = "loop" /\ ~LoopCond
    /\ pc' = "after"
    /\ UNCHANGED <<procs, current_transcription_process, cancellation_requested,
                   txtFile, pumpVars, process, timedOut, result, jobKind, nChunks,
                   chunkIdx, chunk_transcriptions, chunkResults, jobResult, events,
                   cancelVars,
                   cleanupVars,
                   requestVars,
                   segmentVars,
                   webVars,
                   configVars,
                   callerVars,
                   formatVars, mergeVars,
                   overlapVars,
                   busVars>>

\* lines 750-752: elapsed_time > process_timeout; process.terminate()
LoopTimeout ==
    /\ pc = "loop" /\ LoopCond
    /\ timedOut' = TRUE
    /\ procs' = send_signal(procs, Val(process), SIGTERM)
    /\ pc' = "to_wait"
    /\ UNCHANGED <<current_transcription_process, cancellation_requested, txtFile,
                   pumpVars, process, result, jobKind, nChunks, chunkIdx,
                   chunk_transcriptions, chunkResults, jobResult, events, cancelVars,
                   cleanupVars,
                   requestVars,
                   segmentVars,
                   webVars,
                   configVars,
                   callerVars,
                   formatVars, mergeVars,
                   overlapVars,
                   busVars>>

\* line 754: process.wait(timeout=5) returned: the child has exited
TimeoutWaitDone ==
    /\ pc = "to_wait"
    /\ Exited(Val(process))
    /\ procs' = poll(procs, Val(process))
    /\ pc' = "to_fail"
    /\ UNCHANGED <<current_transcription_process, cancellation_requested, txtFile,
                   pumpVars, process, timedOut, result, jobKind, nChunks, chunkIdx,
                   chunk_transcriptions, chunkResults, jobResult, events, cancelVars,
                   cleanupVars,
                   requestVars,
                   segmentVars,
                   webVars,
                   configVars,
                   callerVars,
                   formatVars, mergeVars,
                   overlapVars,
                   busVars>>

\* lines 755-757: TimeoutExpired; process.kill()
TimeoutKill ==
    /\ pc = "to_wait"
    /\ Running(Val(process))
    /\ procs' = send_signal(procs, Val(process), SIGKILL)
    /\ pc' = "to_wait2"
    /\ UNCHANGED <<current_transcription_process, cancellation_requested, txtFile,
                   pumpVars, process, timedOut, result, jobKind, nChunks, chunkIdx,
                   chunk_transcriptions, chunkResults, jobResult, events, cancelVars,
                   cleanupVars,
                   requestVars,
                   segmentVars,
                   webVars,
                   configVars,
                   callerVars,
                   formatVars, mergeVars,
                   overlapVars,
                   busVars>>

\* line 758: process.wait() returned
TimeoutWait2 ==
    /\ pc = "to_wait2"
    /\ Exited(Val(process))
    /\ procs' = poll(procs, Val(process))
    /\ pc' = "to_fail"
    /\ UNCHANGED <<current_transcription_process, cancellation_requested, txtFile,
                   pumpVars, process, timedOut, result, jobKind, nChunks, chunkIdx,
                   chunk_transcriptions, chunkResults, jobResult, events, cancelVars,
                   cleanupVars,
                   requestVars,
                   segmentVars,
                   webVars,
                   configVars,
                   callerVars,
                   formatVars, mergeVars,
                   overlapVars,
                   busVars>>

\* mutant: the cleanup at line 762 is not guarded, its exception replaces the
\* TimeoutError
TimeoutCleanupEscapes(cleanup_raised) == IF cleanup_raised THEN "exception" ELSE "timeout"

\* lines 760-767: what leaves the timeout branch, given whether the cleanup at line
\* 762 raised: the TimeoutError in both cases (line 764 swallows the cleanup's error)
TimeoutRaises(cleanup_raised) == "timeout"

\* lines 760-767 and 971-986: cleanup is attempted, TimeoutError is raised, the outer
\* handler publishes the failure, attempts cleanup again (its failure is swallowed
\* at line 983) and returns the failed result
TimeoutFail(raised1, raised2) ==
    /\ pc = "to_fail"
    /\ events' = Append(events, Ev("TRANSCRIPTION_FAILED", None, None))
    /\ cleanup' = cleanup \o <<raised1, raised2>>
    /\ txtFile' = CleanupEffect(txtFile, <<raised1, raised2>>)
    /\ result' = Some(TranscriptionResult(FALSE, Some(TimeoutRaises(raised1)), None))
    /\ pc' = Return
    /\ UNCHANGED <<procs, current_transcription_process, cancellation_requested,
                   pumpVars, process, timedOut, jobKind, nChunks, chunkIdx,
                   chunk_transcriptions, chunkResults, jobResult, cancelVars,
                   chunkCleanups,
                   requestVars,
                   segmentVars,
                   webVars,
                   configVars,
                   callerVars,
                   formatVars, mergeVars,
                   overlapVars,
                   busVars>>

\* line 864: if returncode != 0 (returncode is process.returncode, None while no
\* poll() or wait() has seen the child exited; None != 0 is true in Python)
ReturnCodeFails(returncode) == returncode # Some(0)

\* mutant: a missing output file is reported in the result only
EvaluateMissingOutputSilent(returncode, txt, raises) ==
    IF ReturnCodeFails(returncode)
    THEN [result |-> TranscriptionResult(FALSE, Some("process"), None),
          events |-> <<U(712, Ev("PROGRESS_UPDATE", None, Some(0))),
                       Ev("TRANSCRIPTION_FAILED", None, None)>>]
    ELSE IF txt = None
    THEN [result |-> TranscriptionResult(FALSE, Some("missing_output"), None),
          events |-> <<U(712, Ev("PROGRESS_UPDATE", None, Some(95)))>>]
    ELSE IF raises
    THEN [result |-> TranscriptionResult(FALSE, Some("exception"), None),
          events |-> <<U(712, Ev("PROGRESS_UPDATE", None, Some(95))),
                       Ev("TRANSCRIPTION_FAILED", None, None)>>]
    ELSE [result |-> TranscriptionResult(TRUE, None, txt),
          events |-> <<U(712, Ev("PROGRESS_UPDATE", None, Some(95))),
                       U(712, Ev("PROGRESS_UPDATE", None, Some(100))),
                       Ev("TRANSCRIPTION_COMPLETED", None, None)>>]

\* lines 828-986 after the loop: the result and the events of the evaluation, for
\* the returncode attribute read at line 829, the transcript file and whether
\* writing the requested output raises
Evaluate(returncode, txt, raises) ==
    IF ReturnCodeFails(returncode)
    THEN [result |-> TranscriptionResult(FALSE, Some("process"), None),
          events |-> <<U(712, Ev("PROGRESS_UPDATE", None, Some(0))),
                       Ev("TRANSCRIPTION_FAILED", None, None)>>]
    ELSE IF txt = None
    THEN [result |-> TranscriptionResult(FALSE, Some("missing_output"), None),
          events |-> <<U(712, Ev("PROGRESS_UPDATE", None, Some(95))),
                       Ev("TRANSCRIPTION_FAILED", None, None)>>]
    ELSE IF raises
    THEN [result |-> TranscriptionResult(FALSE, Some("exception"), None),
          events |-> <<U(712, Ev("PROGRESS_UPDATE", None, Some(95))),
                       Ev("TRANSCRIPTION_FAILED", None, None)>>]
    ELSE [result |-> TranscriptionResult(TRUE, None, txt),
          events |-> <<U(712, Ev("PROGRESS_UPDATE", None, Some(95))),
                       U(712, Ev("PROGRESS_UPDATE", None, Some(100))),
                       Ev("TRANSCRIPTION_COMPLETED", None, None)>>]

\* the cleanup_after_transcription attempts of an evaluation: line 874 on a process
\* failure, line 981 on an exception, line 950 on success, none on a missing output
\* file (lines 883-890); each is guarded, so its failure changes nothing else
EvaluateCleanups(error, cleanup_raised) ==
    IF error = Some("missing_output") THEN <<>> ELSE <<cleanup_raised>>

\* lines 824-986: join the readers, read process.returncode, evaluate, return
AfterLoop(raises, cleanup_raised) ==
    /\ pc = "after"
    /\ LET e == Evaluate(procs[Val(process)].returncode, txtFile, raises)
       IN /\ result' = Some(e.result)
          /\ events' = events \o Tag(e.events, CurrentCall)
          /\ cleanup' = cleanup \o EvaluateCleanups(e.result.error, cleanup_raised)
          /\ txtFile' = CleanupEffect(txtFile, EvaluateCleanups(e.result.error, cleanup_raised))
    /\ pc' = Return
    /\ UNCHANGED <<procs, current_transcription_process, cancellation_requested,
                   pumpVars, process, timedOut, jobKind, nChunks, chunkIdx,
                   chunk_transcriptions, chunkResults, jobResult, cancelVars,
                   chunkCleanups,
                   requestVars,
                   segmentVars,
                   webVars,
                   configVars,
                   callerVars,
                   formatVars, mergeVars,
                   overlapVars,
                   busVars>>

\* ------------------------------------------------ transcribe_audio_chunked
\* lines 488-523 of transcribe_audio on the chunked path, then lines 1037-1070
ChunkedFrontEvents ==
    << U(440, Ev("PROGRESS_UPDATE", None, Some(0))), U(440, Ev("PROGRESS_UPDATE", None, Some(2))),
       U(440, Ev("PROGRESS_UPDATE", None, None)),
       U(1026, Ev("PROGRESS_UPDATE", None, None)), U(1026, Ev("PROGRESS_UPDATE", None, Some(0))),
       U(1026, Ev("CHUNKING_STARTED", None, None)),
       U(1026, Ev("PROGRESS_UPDATE", None, None)), U(1026, Ev("PROGRESS_UPDATE", None, Some(100))) >>

\* the shapes of config["chunking"]: no such section, or its "enabled" entry
ChunkingSections == {"absent", "unset", "on", "off"}

\* line 498: config.get("chunking", {}).get("enabled", True)
chunking_enabled(section) == section # "off"

\* every file that is_audio_chunkable accepts is chunked, whatever the configuration
ChunkDecisionIgnoresConfig(section, is_chunkable) ==
    IF is_chunkable THEN "chunked" ELSE "single"

\* line 509: if chunking_enabled and is_audio_chunkable(audio_path, config), the
\* call goes on in transcribe_audio_chunked (lines 526-537), else single-shot
ChunkDecision(section, is_chunkable) ==
    IF chunking_enabled(section) /\ is_chunkable THEN "chunked" ELSE "single"

\* lines 420-529 of the top-level transcribe_audio call: how it goes on. The enum
\* conversions at lines 424-428 raise ValueError and the duration probe at line 516
\* raises, both outside any try block; a missing source file returns a failed
\* result at line 436; a failed Opus conversion returns one at lines 474-486.
StartOutcome(req, kind, conv_ok) ==
    IF ~req.format_known \/ ~req.model_known THEN "raise"
    ELSE IF ~req.audio_exists THEN "input"
    ELSE IF req.opus /\ ~conv_ok THEN "conversion"
    ELSE IF kind = "chunked" /\ req.probe_fails THEN "raise"
    ELSE "go"

\* a converter started on every Opus request, without the check of lines 431-436
ConverterStartedUnchecked(req) ==
    req.format_known /\ req.model_known /\ req.opus

\* whether the Opus converter is started (line 470): only for an existing Opus file
\* of a request whose enums converted
ConverterStarted(req) ==
    req.format_known /\ req.model_known /\ req.audio_exists /\ req.opus

\* the events published by lines 420-529 (and lines 1037-1070 of a chunked job)
StartEvents(req, kind, conv_ok) ==
    LET o == StartOutcome(req, kind, conv_ok)
        conversion == IF ConverterStarted(req)
                      THEN <<U(440, Ev("PROGRESS_UPDATE", None, Some(1)))>> ELSE <<>>
    IN conversion \o
       (IF o = "raise" /\ req.format_known /\ req.model_known
        THEN Prefix(ChunkedFrontEvents, 2)
        ELSE IF o = "go" /\ kind = "chunked" THEN ChunkedFrontEvents
        ELSE <<>>)

\* the caller invokes transcribe_audio: validation, Opus conversion, then the
\* single-shot path, or the split into chunks (lines 420-529, 1010-1070)
JobStart(conv_ok) ==
    /\ pc = "start"
    /\ LET o == StartOutcome(request, jobKind, conv_ok) IN
       /\ events' = events \o Tag(StartEvents(request, jobKind, conv_ok), 0)
       /\ converters' = converters + (IF ConverterStarted(request) THEN 1 ELSE 0)
       /\ CASE o = "raise" ->
                 /\ pc' = "raised"
                 /\ UNCHANGED <<result, jobResult, chunksCreated>>
            [] o \in {"input", "conversion"} ->
                 /\ pc' = "done"
                 /\ result' = IF jobKind = "single"
                              THEN Some(TranscriptionResult(FALSE, Some(o), None)) ELSE result
                 /\ jobResult' = IF jobKind = "chunked"
                                 THEN Some(TranscriptionResult(FALSE, Some(o), None)) ELSE jobResult
                 /\ UNCHANGED chunksCreated
            [] OTHER ->
                 /\ pc' = IF jobKind = "single" THEN "ta_enter" ELSE "chunk_begin"
                 /\ chunksCreated' = IF jobKind = "chunked" THEN nChunks ELSE chunksCreated
                 /\ UNCHANGED <<result, jobResult>>
    /\ UNCHANGED <<procs, current_transcription_process, cancellation_requested,
                   txtFile, pumpVars, process, timedOut, jobKind, nChunks,
                   chunkIdx, chunk_transcriptions, chunkResults, cancelVars,
                   cleanupVars, request,
                   segmentVars,
                   webVars,
                   configVars,
                   callerVars,
                   formatVars, mergeVars,
                   overlapVars,
                   busVars>>

\* line 1081: base_progress = (i / len(chunks)) * 90, in whole percent
base_progress(i, n) == (i * 90) \div n

\* lines 1076-1112: the next chunk's events, then transcribe_audio on the chunk;
\* chunk_config["chunking"]["enabled"] = False at line 1104 raises KeyError into
\* the handler at lines 1218-1225 when the configuration has no chunking section.
\* chunk_config = config.copy() at line 1103 is a shallow copy: the assignment is
\* made in the chunking section of the caller's configuration object. The chunk's
\* transcribe_audio call then decides at lines 497-509 on that section.
ChunkBegin ==
    /\ pc = "chunk_begin"
    /\ chunkIdx < nChunks
    /\ result' = None
    /\ IF request.has_chunking
       THEN /\ events' = events \o Tag(
                 << U(1026, Ev("PROGRESS_UPDATE", Some(chunkIdx + 1), Some(base_progress(chunkIdx, nChunks)))),
                    U(1026, Ev("CHUNK_STARTED", Some(chunkIdx + 1), None)) >>, 0)
            /\ config_chunking' = "off"
            /\ pc' = IF \E chunk_chunkable \in BOOLEAN :
                          ChunkDecision(config_chunking', chunk_chunkable) = "chunked"
                     THEN "nested" ELSE "ta_enter"
            /\ UNCHANGED jobResult
       ELSE /\ events' = events \o Tag(
                 << U(1026, Ev("PROGRESS_UPDATE", Some(chunkIdx + 1), Some(base_progress(chunkIdx, nChunks)))),
                    U(1026, Ev("CHUNK_STARTED", Some(chunkIdx + 1), None)),
                    Ev("TRANSCRIPTION_FAILED", None, None) >>, 0)
            /\ jobResult' = Some(TranscriptionResult(FALSE, Some("exception"), None))
            /\ pc' = "done"
            /\ UNCHANGED config_chunking
    /\ UNCHANGED <<procs, current_transcription_process, cancellation_requested,
                   txtFile, pumpVars, process, timedOut, jobKind, nChunks, chunkIdx,
                   chunk_transcriptions, chunkResults, cancelVars,
                   cleanupVars,
                   requestVars,
                   segmentVars,
                   webVars,
                   chunkable,
                   callerVars,
                   formatVars, mergeVars,
                   overlapVars,
                   busVars>>

\* mutant: a failed chunk is skipped without its chunk-failed event
ChunkOutcomeSilent(chunk_num, chunk_result, n) ==
    IF ~chunk_result.success
    THEN [events |-> <<>>, entries |-> <<>>]
    ELSE [events |-> <<Ev("CHUNK_COMPLETED", Some(chunk_num), Some((chunk_num * 100) \div n))>>,
          entries |-> <<[chunk |-> chunk_num, text |-> chunk_result.text]>>]

\* the events and the list entries of a returned chunk (lines 1114-1146)
ChunkOutcome(chunk_num, chunk_result, n) ==
    IF ~chunk_result.success
    THEN [events |-> <<Ev("CHUNK_FAILED", Some(chunk_num), None)>>, entries |-> <<>>]
    ELSE [events |-> <<Ev("CHUNK_COMPLETED", Some(chunk_num), Some((chunk_num * 100) \div n))>>,
          entries |-> <<[chunk |-> chunk_num, text |-> chunk_result.text]>>]

\* a time-coded segment of the recognizer's JSON transcript
Segment(s) == [start |-> s, end |-> s + 1]

\* the segment lists the recognizer can produce for one chunk
SegmentLists == {[k \in 1..n |-> Segment(k - 1)] : n \in 0..MaxSegments}

\* chunk_info['start_time'] of chunk i (1-based), as the chunker lays the chunks out
start_time(i) == (i - 1) * ChunkSeconds

\* lines 1126-1132: every segment's start and end increased by the chunk's start
Shift(segs, t) ==
    [k \in 1..Len(segs) |-> [start |-> segs[k].start + t, end |-> segs[k].end + t]]

\* lines 956-962: transcribe_audio builds its successful result from success, text,
\* output_file, language and model only; the segments field keeps its default,
\* whatever segments the recognizer's transcript holds
ResultSegments(segs) == <<>>

\* lines 1114-1146: the chunk's transcribe_audio call has returned; segs are the
\* segments of the recognizer's transcript of a successful chunk
ChunkReturn(segs) ==
    /\ pc = "chunk_ret"
    /\ Val(result).success \/ segs = <<>>
    /\ LET o == ChunkOutcome(chunkIdx + 1, Val(result), nChunks)
       IN /\ events' = events \o o.events
          /\ chunk_transcriptions' = chunk_transcriptions \o o.entries
    /\ chunkResults' = Append(chunkResults, Val(result))
    /\ recognized' = Append(recognized, segs)
    /\ all_segments' = IF Val(result).success
                       THEN all_segments \o Shift(ResultSegments(segs), start_time(chunkIdx + 1))
                       ELSE all_segments
    /\ chunkIdx' = chunkIdx + 1
    /\ pc' = "chunk_begin"
    /\ UNCHANGED <<procs, current_transcription_process, cancellation_requested,
                   txtFile, pumpVars, process, timedOut, result, jobKind, nChunks,
                   jobResult, cancelVars,
                   cleanupVars,
                   requestVars,
                   webVars,
                   configVars,
                   callerVars,
                   formatVars, mergeVars,
                   overlapVars,
                   busVars>>

\* AudioChunker.merge_transcriptions(chunk_transcriptions, remove_overlap=True): the
\* chunk texts in list order (a text is the token of the invocation that wrote it)
merge_transcriptions(cts) == [i \in 1..Len(cts) |-> cts[i].text]

\* where the tail of transcribe_audio_chunked raises: nowhere, while merging or
\* writing the output (lines 1148-1185), or in chunker.cleanup_chunks itself (line 1190)
RaisePoints == {"none", "merge", "cleanup"}

\* lines 1187-1190: chunker.cleanup_chunks(chunk_dir) is called when the tail gets
\* that far; the handler at lines 1218-1225 calls no cleanup
ChunkCleanupCalls(raise_at) == IF raise_at = "merge" THEN 0 ELSE 1

\* lines 1148-1225: merge, write the output, clean up, return; an exception is
\* turned into a failed result by the handler at line 1218
ChunkedFinish(raise_at, cleanup_raised) ==
    /\ pc = "chunk_begin"
    /\ chunkIdx = nChunks
    /\ chunkCleanups' = chunkCleanups + ChunkCleanupCalls(raise_at)
    /\ IF raise_at # "none"
       THEN /\ events' = Append(events, Ev("TRANSCRIPTION_FAILED", None, None))
            /\ jobResult' = Some(TranscriptionResult(FALSE, Some("exception"), None))
            /\ UNCHANGED <<cleanup, txtFile>>
       ELSE /\ events' = Append(events, Ev("TRANSCRIPTION_COMPLETED", None, None))
            /\ jobResult' = Some(TranscriptionResult(TRUE, None,
                                     Some(merge_transcriptions(chunk_transcriptions))))
            /\ cleanup' = Append(cleanup, cleanup_raised)
            /\ txtFile' = CleanupEffect(txtFile, <<cleanup_raised>>)
    /\ pc' = "done"
    /\ UNCHANGED <<procs, current_transcription_process, cancellation_requested,
                   pumpVars, process, timedOut, result, jobKind, nChunks,
                   chunkIdx, chunk_transcriptions, chunkResults, cancelVars,
                   requestVars,
                   segmentVars,
                   webVars,
                   configVars,
                   callerVars,
                   formatVars, mergeVars,
                   overlapVars,
                   busVars>>

\* --------------------------------------------- cancel_current_transcription
\* lines 99-103: the call begins and sets the flag
CancelCall ==
    /\ cpc = "idle"
    /\ cancelCalls < MaxCancels
    /\ cancelCalls' = cancelCalls + 1
    /\ pendingBefore' = cancellation_requested
    /\ cancellation_requested' = TRUE
    /\ cTarget' = None
    /\ cOps' = <<>>
    /\ cpc' = "check"
    /\ UNCHANGED <<procs, current_transcription_process, txtFile, pumpVars, jobVars,
                   events, cancelLog,
                   cleanupVars,
                   requestVars,
                   segmentVars,
                   webVars,
                   configVars,
                   callerVars,
                   formatVars, mergeVars,
                   overlapVars,
                   busVars>>

\* the record of a returned call
Returned(ret, published) ==
    [ret |-> ret, pending |-> pendingBefore, target |-> cTarget, ops |-> cOps,
     published |-> published, slot |-> current_transcription_process,
     targetExited |-> IF cTarget = None THEN FALSE ELSE Exited(Val(cTarget))]

\* mutant: the else branch returns False
ReturnFalse(flag) == FALSE

\* line 126: return cancellation_requested
ReturnFlag(flag) == flag

\* line 106: if current_transcription_process and
\* current_transcription_process.poll() is None; the else branch returns the flag
\* (lines 124-126)
CancelCheck ==
    /\ cpc = "check"
    /\ IF current_transcription_process = None
       THEN /\ cancelLog' = Append(cancelLog, Returned(ReturnFlag(cancellation_requested), 0))
            /\ cpc' = "idle"
            /\ UNCHANGED <<procs, cTarget>>
       ELSE /\ procs' = poll(procs, Val(current_transcription_process))
            /\ IF procs'[Val(current_transcription_process)].returncode = None
               THEN /\ cTarget' = current_transcription_process
                    /\ cpc' = "terminate"
                    /\ UNCHANGED cancelLog
               ELSE /\ cancelLog' = Append(cancelLog, Returned(ReturnFlag(cancellation_requested), 0))
                    /\ cpc' = "idle"
                    /\ UNCHANGED cTarget
    /\ UNCHANGED <<current_transcription_process, cancellation_requested, txtFile,
                   pumpVars, jobVars, events, cancelCalls, pendingBefore, cOps,
                   cleanupVars,
                   requestVars,
                   segmentVars,
                   webVars,
                   configVars,
                   callerVars,
                   formatVars, mergeVars,
                   overlapVars,
                   busVars>>

\* line 108: current_transcription_process.terminate()
CancelTerminate ==
    /\ cpc = "terminate"
    /\ procs' = send_signal(procs, Val(current_transcription_process), SIGTERM)
    /\ cOps' = Append(cOps, <<"terminate", Val(current_transcription_process)>>)
    /\ cpc' = "wait"
    /\ UNCHANGED <<current_transcription_process, cancellation_requested, txtFile,
                   pumpVars, jobVars, events, cancelCalls, pendingBefore, cTarget,
                   cancelLog,
                   cleanupVars,
                   requestVars,
                   segmentVars,
                   webVars,
                   configVars,
                   callerVars,
                   formatVars, mergeVars,
                   overlapVars,
                   busVars>>

\* line 110: current_transcription_process.wait(timeout=5) returned. (The global is
\* read when the statement starts; a step here with the slot's process exited is a
\* wait that started on that process.)
CancelWaitDone ==
    /\ cpc = "wait"
    /\ Exited(Val(current_transcription_process))
    /\ procs' = poll(procs, Val(current_transcription_process))
    /\ cOps' = Append(cOps, <<"wait", Val(current_transcription_process)>>)
    /\ cpc' = "clear"
    /\ UNCHANGED <<current_transcription_process, cancellation_requested, txtFile,
                   pumpVars, jobVars, events, cancelCalls, pendingBefore, cTarget,
                   cancelLog,
                   cleanupVars,
                   requestVars,
                   segmentVars,
                   webVars,
                   configVars,
                   callerVars,
                   formatVars, mergeVars,
                   overlapVars,
                   busVars>>

\* lines 112-114: TimeoutExpired after the grace period; kill()
CancelKill ==
    /\ cpc = "wait"
    /\ Running(Val(current_transcription_process))
    /\ procs' = send_signal(procs, Val(current_transcription_process), SIGKILL)
    /\ cOps' = cOps \o << <<"wait", Val(current_transcription_process)>>,
                          <<"kill", Val(current_transcription_process)>> >>
    /\ cpc' = "wait2"
    /\ UNCHANGED <<current_transcription_process, cancellation_requested, txtFile,
                   pumpVars, jobVars, events, cancelCalls, pendingBefore, cTarget,
                   cancelLog,
                   cleanupVars,
                   requestVars,
                   segmentVars,
                   webVars,
                   configVars,
                   callerVars,
                   formatVars, mergeVars,
                   overlapVars,
                   busVars>>

\* line 115: current_transcription_process.wait() returned
CancelWait2 ==
    /\ cpc = "wait2"
    /\ Exited(Val(current_transcription_process))
    /\ procs' = poll(procs, Val(current_transcription_process))
    /\ cOps' = Append(cOps, <<"wait", Val(current_transcription_process)>>)
    /\ cpc' = "clear"
    /\ UNCHANGED <<current_transcription_process, cancellation_requested, txtFile,
                   pumpVars, jobVars, events, cancelCalls, pendingBefore, cTarget,
                   cancelLog,
                   cleanupVars,
                   requestVars,
                   segmentVars,
                   webVars,
                   configVars,
                   callerVars,
                   formatVars, mergeVars,
                   overlapVars,
                   busVars>>

\* line 116: current_transcription_process = None
CancelClear ==
    /\ cpc = "clear"
    /\ current_transcription_process' = None
    /\ cpc' = "publish"
    /\ UNCHANGED <<procs, cancellation_requested, txtFile, pumpVars, jobVars, events,
                   cancelCalls, pendingBefore, cTarget, cOps, cancelLog,
                   cleanupVars,
                   requestVars,
                   segmentVars,
                   webVars,
                   configVars,
                   callerVars,
                   formatVars, mergeVars,
                   overlapVars,
                   busVars>>

\* lines 118-123: publish the cancellation event, return True
CancelPublish ==
    /\ cpc = "publish"
    /\ events' = Append(events, Ev("TRANSCRIPTION_CANCELLED", None, None))
    /\ cancelLog' = Append(cancelLog, Returned(TRUE, 1))
    /\ cpc' = "idle"
    /\ UNCHANGED <<procs, current_transcription_process, cancellation_requested,
                   txtFile, pumpVars, jobVars, cancelCalls, pendingBefore, cTarget,
                   cOps,
                   cleanupVars,
                   requestVars,
                   segmentVars,
                   webVars,
                   configVars,
                   callerVars,
                   formatVars, mergeVars,
                   overlapVars,
                   busVars>>

\* ------------------------------------------------ web: progress observers
notWeb == <<procs, current_transcription_process, cancellation_requested, txtFile,
            pumpVars, jobVars, events, cancelVars, cleanupVars, requestVars,
            segmentVars>>

\* an event's data: a mapping, which may be empty
Payloads == [id : 1..MaxEvents, empty : BOOLEAN]

\* Python truth value of a payload: an empty dict is false (line 181)
Truthy(payload) == ~payload.empty

\* line 181: if last_progress_data
Replays(last) == last # None /\ Truthy(Val(last))

\* a send that raises is caught nowhere: it ends the handler
SendOutcomeUncaught(ok) == IF ok THEN "sent" ELSE "raised"

\* lines 118-131 (147-155): the try/except around each send is inside the loop; a
\* send that raises makes the handler discard that socket and go on with the rest
SendOutcome(ok) == IF ok THEN "sent" ELSE "discarded"

\* publish hands an event to the handler synchronously: the publisher has the
\* handler's previous run behind it
HandlerIdle == hpc = "idle"

\* lines 87-116 (133-145): an event reaches progress_event_handler, which retains
\* its payload and copies the registry; up to the first await
Publish(empty) ==
    /\ HandlerIdle
    /\ Len(sent_events) < MaxEvents
    /\ LET payload == [id |-> Len(sent_events) + 1, empty |-> empty] IN
       /\ sent_events' = Append(sent_events, payload)
       /\ last_progress_data' = Some(payload)
       /\ message' = Some(payload)
    /\ snapshot' = progress_websockets
    /\ current_sockets' = progress_websockets
    /\ hpc' = IF progress_websockets = {} THEN "idle" ELSE "sending"
    /\ UNCHANGED <<progress_websockets, ws, alive, received, joinedAt, failed, removed,
                   configVars,
                   callerVars,
                   formatVars, mergeVars,
                   overlapVars,
                   busVars>>
    /\ UNCHANGED notWeb

\* lines 118-131 (147-155): await ws.send_text(message) for one socket of the copy;
\* a send that raises makes the handler discard that socket
HandlerSend(o) ==
    /\ hpc = "sending"
    /\ o \in current_sockets
    /\ LET outcome == SendOutcome(alive[o]) IN
       /\ received' = IF outcome = "sent"
                      THEN [received EXCEPT ![o] = Append(@, Val(message))] ELSE received
       /\ progress_websockets' = IF outcome = "discarded"
                                 THEN progress_websockets \ {o} ELSE progress_websockets
       /\ failed' = IF outcome = "sent" THEN failed ELSE failed \cup {o}
       /\ removed' = removed \cup (progress_websockets \ progress_websockets')
       /\ current_sockets' = IF outcome = "raised" THEN {} ELSE current_sockets \ {o}
       /\ hpc' = IF outcome = "raised" THEN "raised"
                 ELSE IF current_sockets' = {} THEN "idle" ELSE "sending"
    /\ UNCHANGED <<last_progress_data, message, ws, alive, sent_events, joinedAt, snapshot,
                   configVars,
                   callerVars,
                   formatVars, mergeVars,
                   overlapVars,
                   busVars>>
    /\ UNCHANGED notWeb

\* lines 172-174: await websocket.accept(); it raises for a client that is gone
Accept(o) ==
    /\ ws[o] = "new"
    /\ ws' = [ws EXCEPT ![o] = IF alive[o] THEN "accepted" ELSE "closed"]
    /\ UNCHANGED <<progress_websockets, last_progress_data, hpc, current_sockets, message,
                   alive, received, sent_events, joinedAt, snapshot, failed, removed,
                   configVars,
                   callerVars,
                   formatVars, mergeVars,
                   overlapVars,
                   busVars>>
    /\ UNCHANGED notWeb

\* lines 176-183: the websocket is added to the registry and the retained payload
\* is sent to it; a send that raises ends in the finally block (lines 196-201)
Join(o) ==
    /\ ws[o] = "accepted"
    /\ joinedAt' = [joinedAt EXCEPT ![o] = Len(sent_events)]
    /\ IF Replays(last_progress_data) /\ ~alive[o]
       THEN /\ progress_websockets' = progress_websockets
            /\ ws' = [ws EXCEPT ![o] = "closed"]
            /\ UNCHANGED received
       ELSE /\ progress_websockets' = progress_websockets \cup {o}
            /\ ws' = [ws EXCEPT ![o] = "listening"]
            /\ received' = IF Replays(last_progress_data)
                           THEN [received EXCEPT ![o] = Append(@, Val(last_progress_data))]
                           ELSE received
    /\ UNCHANGED <<last_progress_data, hpc, current_sockets, message, alive, sent_events,
                   snapshot, failed, removed,
                   configVars,
                   callerVars,
                   formatVars, mergeVars,
                   overlapVars,
                   busVars>>
    /\ UNCHANGED notWeb

\* the client goes away, or the connection breaks: from now on a send raises
Break(o) ==
    /\ ws[o] # "closed"
    /\ alive[o]
    /\ alive' = [alive EXCEPT ![o] = FALSE]
    /\ UNCHANGED <<progress_websockets, last_progress_data, hpc, current_sockets, message,
                   ws, received, sent_events, joinedAt, snapshot, failed, removed,
                   configVars,
                   callerVars,
                   formatVars, mergeVars,
                   overlapVars,
                   busVars>>
    /\ UNCHANGED notWeb

\* lines 185-201: receive_text raises WebSocketDisconnect, the finally block
\* discards the websocket
Leave(o) ==
    /\ ws[o] = "listening"
    /\ ~alive[o]
    /\ ws' = [ws EXCEPT ![o] = "closed"]
    /\ progress_websockets' = progress_websockets \ {o}
    /\ UNCHANGED <<last_progress_data, hpc, current_sockets, message, alive, received,
                   sent_events, joinedAt, snapshot, failed, removed,
                   configVars,
                   callerVars,
                   formatVars, mergeVars,
                   overlapVars,
                   busVars>>
    /\ UNCHANGED notWeb

\* ------------------------------------------- the callers of transcribe_audio
notCallers == <<procs, current_transcription_process, cancellation_requested, txtFile,
                pumpVars, jobVars, events, cancelVars, cleanupVars, requestVars,
                segmentVars, webVars, configVars, formatVars, mergeVars, overlapVars,
                busVars>>

\* what a caller is given for a subtitle parameter: nothing, a blank string,
\* text that is no number, or a number
Given(numbers) ==
    {[kind |-> k, v |-> 0] : k \in {"none", "blank", "junk"}}
        \cup {[kind |-> "num", v |-> n] : n \in numbers}

\* the values tried for max_chars, and for max_duration in tenths of a second
CharsTried == {0, MinChars - 1, MinChars, DefaultChars, MaxChars, MaxChars + 1}
DurationsTried == {0, MinDuration - 1, MinDuration, DefaultDuration, MaxDuration, MaxDuration + 1}

\* min(max(lo, x), hi)
Clamp(lo, x, hi) ==
    LET m == IF x > lo THEN x ELSE lo IN IF m < hi THEN m ELSE hi

\* web/__init__.py lines 431-451: a form field that is missing, blank or not a
\* number becomes the default, a number is clamped to [lo, hi]
WebPasses(given, lo, hi, default) ==
    IF given.kind = "num" THEN Some(Clamp(lo, given.v, hi)) ELSE Some(default)

\* main.py lines 65-76 and 154-163: argparse converts the option (type=int,
\* type=float, default=None) and main passes args.srt_max_chars and
\* args.srt_max_duration on as they are
CliPasses(given, lo, hi, default) ==
    IF given.kind = "num" THEN Some(given.v) ELSE None

\* transcribe_audio_api calls transcribe_audio (web/__init__.py lines 431-466)
WebCall(chars, duration) ==
    /\ call_args = None
    /\ call_args' = Some([caller |-> "web", chars |-> chars, duration |-> duration,
                          srt_max_chars |-> WebPasses(chars, MinChars, MaxChars, DefaultChars),
                          srt_max_duration |-> WebPasses(duration, MinDuration, MaxDuration,
                                                         DefaultDuration)])
    /\ UNCHANGED notCallers

\* main calls transcribe_audio (main.py lines 154-163); argparse ends the program
\* before main for an option value that it cannot convert
CliCall(chars, duration) ==
    /\ call_args = None
    /\ chars.kind \in {"none", "num"} /\ duration.kind \in {"none", "num"}
    /\ call_args' = Some([caller |-> "cli", chars |-> chars, duration |-> duration,
                          srt_max_chars |-> CliPasses(chars, MinChars, MaxChars, DefaultChars),
                          srt_max_duration |-> CliPasses(duration, MinDuration, MaxDuration,
                                                         DefaultDuration)])
    /\ UNCHANGED notCallers

notFormat == <<procs, current_transcription_process, cancellation_requested, txtFile,
               pumpVars, jobVars, events, cancelVars, cleanupVars, requestVars,
               segmentVars, webVars, configVars, callerVars, mergeVars>>

\* ------------------------------------------- subtitle cues (output_formatter)
\* Times are tenths of a second. A word is its spelling and its length in
\* characters.
Vocabulary ==
    {[w |-> "Hello", len |-> 5], [w |-> "world", len |-> 5],
     [w |-> "Donaudampfschifffahrt", len |-> 21]}

\* the texts of a segment: 1..MaxWords words
SegmentTexts == UNION {[1..n -> Vocabulary] : n \in 1..MaxWords}

\* json_output["segments"] as the recognizer writes it: segments in time order,
\* each lasting one or two seconds, the next one beginning where the one before
\* it ends or half a second later
RECURSIVE SegmentInputs(_, _)
SegmentInputs(n, from) ==
    IF n = 0 THEN {<<>>}
    ELSE {<<>>} \cup
         {<<[text |-> t, start |-> from + gap, end |-> from + gap + d]>> \o rest :
             t \in SegmentTexts, gap \in {0, 5}, d \in {10, 20},
             rest \in SegmentInputs(n - 1, from + 5 + 20)}

\* the words of one segment with interpolated timestamps: word k of n takes
\* the k-th of n equal parts of the segment's time
TimedWords(seg) ==
    LET n == Len(seg.text) IN
    [k \in 1..n |-> [word |-> seg.text[k],
                     start |-> seg.start + ((k - 1) * (seg.end - seg.start)) \div n,
                     end |-> seg.start + (k * (seg.end - seg.start)) \div n]]

\* the timed words of all segments, in order
RECURSIVE AllWords(_)
AllWords(segs) ==
    IF segs = <<>> THEN <<>> ELSE TimedWords(Head(segs)) \o AllWords(Tail(segs))

\* len(text) of words joined by single blanks
RECURSIVE TextLen(_)
TextLen(words) ==
    IF words = <<>> THEN 0
    ELSE Head(words).len + (IF Len(words) > 1 THEN 1 ELSE 0) + TextLen(Tail(words))

\* the cue closed over the timed words cur: it begins with its first word and
\* ends at the timestamp of the last word included
CloseCue(cur, index) ==
    [index |-> index, text |-> [k \in 1..Len(cur) |-> cur[k].word],
     start |-> cur[1].start, end |-> cur[Len(cur)].end]

\* whether the next word w still goes into the current cue: neither the length
\* of the joined text nor the cue's duration may exceed its bound
Fits(cur, w, max_chars, max_duration) ==
    /\ TextLen([k \in 1..Len(cur) |-> cur[k].word] \o <<w.word>>) <= max_chars
    /\ w.end - cur[1].start <= max_duration

\* the segmenter leaving out a word that alone is longer than max_chars
RECURSIVE CuesSkipping(_, _, _, _, _)
CuesSkipping(words, cur, closed, max_chars, max_duration) ==
    IF words = <<>>
    THEN IF cur = <<>> THEN closed ELSE Append(closed, CloseCue(cur, Len(closed) + 1))
    ELSE LET w == Head(words) IN
         IF w.word.len > max_chars
         THEN CuesSkipping(Tail(words), cur, closed, max_chars, max_duration)
         ELSE IF cur = <<>> \/ Fits(cur, w, max_chars, max_duration)
         THEN CuesSkipping(Tail(words), Append(cur, w), closed, max_chars, max_duration)
         ELSE CuesSkipping(Tail(words), <<w>>,
                           Append(closed, CloseCue(cur, Len(closed) + 1)),
                           max_chars, max_duration)

\* mode (a) of the segmenter: walk the words in order, accumulate them into the
\* current cue while they fit, otherwise close the cue and open a new one
\* starting at the next word
RECURSIVE Cues(_, _, _, _, _)
Cues(words, cur, closed, max_chars, max_duration) ==
    IF words = <<>>
    THEN IF cur = <<>> THEN closed ELSE Append(closed, CloseCue(cur, Len(closed) + 1))
    ELSE LET w == Head(words) IN
         IF cur = <<>> \/ Fits(cur, w, max_chars, max_duration)
         THEN Cues(Tail(words), Append(cur, w), closed, max_chars, max_duration)
         ELSE Cues(Tail(words), <<w>>, Append(closed, CloseCue(cur, Len(closed) + 1)),
                   max_chars, max_duration)

segments_to_srt(segs, max_chars, max_duration) ==
    Cues(AllWords(segs), <<>>, <<>>, max_chars, max_duration)

\* lines 899-903 and 1167-1169: the SRT content is segments_to_srt of the
\* segments, with the caller's srt_max_chars and srt_max_duration
SrtContent(segs, max_chars, max_duration) == segments_to_srt(segs, max_chars, max_duration)

\* transcribe_audio writes the SRT output of a transcript with segments
WriteSrt ==
    /\ srt_content = None
    /\ srt_content' = Some(SrtContent(segments, srt_max_chars, srt_max_duration))
    /\ UNCHANGED <<segments, srt_max_chars, srt_max_duration,
                   overlapVars,
                   busVars>>
    /\ UNCHANGED notFormat

notMerge == <<procs, current_transcription_process, cancellation_requested, txtFile,
              pumpVars, jobVars, events, cancelVars, cleanupVars, requestVars,
              segmentVars, webVars, configVars, callerVars, formatVars, overlapVars,
              busVars>>

\* ------------------------------------------- merged text (AudioChunker)
\* A text is the sequence of its words; joining with the separator is \o.
MergeVocabulary == {"is", "coming", "tonight"}

StormTexts == << <<"a", "storm", "is", "coming">>, <<"coming", "tonight">> >>

\* the texts of a chunk: up to MaxTextWords words
ChunkTexts == UNION {[1..n -> MergeVocabulary] : n \in 0..MaxTextWords}

\* the lists of chunk texts a job can collect
ChunkTextLists == {StormTexts} \cup UNION {[1..n -> ChunkTexts] : n \in 0..MaxTexts}

Min(a, b) == IF a < b THEN a ELSE b

\* the length of the longest run that ends the text prev and begins the text
\* next; 0 when there is no match
Overlap(prev, next) ==
    LET matches == {k \in 1..Min(Len(prev), Len(next)) :
                       SubSeq(prev, Len(prev) - k + 1, Len(prev)) = SubSeq(next, 1, k)}
    IN IF matches = {} THEN 0 ELSE CHOOSE k \in matches : \A j \in matches : j <= k

\* mergeTranscriptions(chunkResults, removeOverlap): the chunk texts in order,
\* each one without the lead that duplicates the end of the chunk before it
RECURSIVE MergeTexts(_, _)
MergeTexts(texts, remove_overlap) ==
    IF Len(texts) <= 1 THEN (IF texts = <<>> THEN <<>> ELSE texts[1])
    ELSE LET n == Len(texts)
             last == texts[n]
             k == IF remove_overlap THEN Overlap(texts[n - 1], last) ELSE 0
         IN MergeTexts(SubSeq(texts, 1, n - 1), remove_overlap) \o SubSeq(last, k + 1, Len(last))

\* the merge that transcribe_audio_chunked forgets to ask overlap removal of
MergedTextPlain(texts) == MergeTexts(texts, FALSE)

\* line 1150: chunker.merge_transcriptions(chunk_transcriptions, remove_overlap=True)
MergedText(texts) == MergeTexts(texts, TRUE)

\* transcribe_audio_chunked merges the texts of its chunks (lines 1148-1150)
MergeChunkTexts ==
    /\ merged_text = None
    /\ merged_text' = Some(MergedText(chunk_texts))
    /\ UNCHANGED chunk_texts
    /\ UNCHANGED notMerge

\* ------------------------------- cancel_current_transcription, called twice
\* Two threads that each call cancel_current_transcription once. Every statement
\* loads the module global anew, so a statement that follows line 116 of the
\* other call finds None in it.
Cancellers == {1, 2}

notOverlap == <<txtFile, pumpVars, jobVars, cancelVars, cleanupVars, requestVars,
                segmentVars, webVars, configVars, callerVars, formatVars, mergeVars>>

\* the slot holds a process that has not exited
SlotAlive ==
    current_transcription_process # None /\ Running(Val(current_transcription_process))

\* an AttributeError ('NoneType' object has no attribute ...) leaves the call
Raise(t) ==
    /\ canc_pc' = [canc_pc EXCEPT ![t] = "done"]
    /\ canc_out' = [canc_out EXCEPT ![t] = Some([raised |-> TRUE, ret |-> FALSE])]

\* lines 99-103: the call begins and sets the flag
CancellerCall(t) ==
    /\ canc_pc[t] = "idle"
    /\ cancellation_requested' = TRUE
    /\ canc_pc' = [canc_pc EXCEPT ![t] = "test"]
    /\ canc_case' = [canc_case EXCEPT ![t] =
                        Some([alive |-> SlotAlive,
                              overlaps |-> \E u \in Cancellers \ {t} :
                                              canc_pc[u] \notin {"idle", "done"}])]
    /\ UNCHANGED <<procs, current_transcription_process, events, canc_out,
                   busVars>>
    /\ UNCHANGED notOverlap

\* line 106, left operand: if current_transcription_process; a false value goes
\* to the else branch and line 126 returns the flag
CancellerTest(t) ==
    /\ canc_pc[t] = "test"
    /\ IF current_transcription_process = None
       THEN /\ canc_pc' = [canc_pc EXCEPT ![t] = "done"]
            /\ canc_out' = [canc_out EXCEPT ![t] =
                               Some([raised |-> FALSE, ret |-> cancellation_requested])]
       ELSE /\ canc_pc' = [canc_pc EXCEPT ![t] = "poll"]
            /\ UNCHANGED canc_out
    /\ UNCHANGED <<procs, current_transcription_process, cancellation_requested, events,
                   canc_case,
                   busVars>>
    /\ UNCHANGED notOverlap

\* line 106, right operand: current_transcription_process.poll() is None
CancellerPoll(t) ==
    /\ canc_pc[t] = "poll"
    /\ IF current_transcription_process = None
       THEN Raise(t) /\ UNCHANGED procs
       ELSE /\ procs' = poll(procs, Val(current_transcription_process))
            /\ IF procs'[Val(current_transcription_process)].returncode = None
               THEN /\ canc_pc' = [canc_pc EXCEPT ![t] = "terminate"]
                    /\ UNCHANGED canc_out
               ELSE /\ canc_pc' = [canc_pc EXCEPT ![t] = "done"]
                    /\ canc_out' = [canc_out EXCEPT ![t] =
                                       Some([raised |-> FALSE, ret |-> cancellation_requested])]
    /\ UNCHANGED <<current_transcription_process, cancellation_requested, events,
                   canc_case,
                   busVars>>
    /\ UNCHANGED notOverlap

\* lines 107-108: current_transcription_process.pid, .terminate()
CancellerTerminate(t) ==
    /\ canc_pc[t] = "terminate"
    /\ IF current_transcription_process = None
       THEN Raise(t) /\ UNCHANGED procs
       ELSE /\ procs' = send_signal(procs, Val(current_transcription_process), SIGTERM)
            /\ canc_pc' = [canc_pc EXCEPT ![t] = "wait"]
            /\ UNCHANGED canc_out
    /\ UNCHANGED <<current_transcription_process, cancellation_requested, events,
                   canc_case,
                   busVars>>
    /\ UNCHANGED notOverlap

\* lines 109-114: current_transcription_process.wait(timeout=5) returns, or the
\* grace period expires and the process is killed
CancellerWait(t) ==
    /\ canc_pc[t] = "wait"
    /\ IF current_transcription_process = None
       THEN Raise(t) /\ UNCHANGED procs
       ELSE IF Exited(Val(current_transcription_process))
       THEN /\ procs' = poll(procs, Val(current_transcription_process))
            /\ canc_pc' = [canc_pc EXCEPT ![t] = "clear"]
            /\ UNCHANGED canc_out
       ELSE /\ procs' = send_signal(procs, Val(current_transcription_process), SIGKILL)
            /\ canc_pc' = [canc_pc EXCEPT ![t] = "wait2"]
            /\ UNCHANGED canc_out
    /\ UNCHANGED <<current_transcription_process, cancellation_requested, events,
                   canc_case,
                   busVars>>
    /\ UNCHANGED notOverlap

\* line 115: current_transcription_process.wait() returns
CancellerWait2(t) ==
    /\ canc_pc[t] = "wait2"
    /\ IF current_transcription_process = None
       THEN Raise(t) /\ UNCHANGED procs
       ELSE /\ Exited(Val(current_transcription_process))
            /\ procs' = poll(procs, Val(current_transcription_process))
            /\ canc_pc' = [canc_pc EXCEPT ![t] = "clear"]
            /\ UNCHANGED canc_out
    /\ UNCHANGED <<current_transcription_process, cancellation_requested, events,
                   canc_case,
                   busVars>>
    /\ UNCHANGED notOverlap

\* line 116: current_transcription_process = None
CancellerClear(t) ==
    /\ canc_pc[t] = "clear"
    /\ current_transcription_process' = None
    /\ canc_pc' = [canc_pc EXCEPT ![t] = "publish"]
    /\ UNCHANGED <<procs, cancellation_requested, events, canc_out, canc_case,
                   busVars>>
    /\ UNCHANGED notOverlap

\* lines 118-123: publish the cancellation event, return True
CancellerPublish(t) ==
    /\ canc_pc[t] = "publish"
    /\ events' = Append(events, Ev("TRANSCRIPTION_CANCELLED", None, None))
    /\ canc_pc' = [canc_pc EXCEPT ![t] = "done"]
    /\ canc_out' = [canc_out EXCEPT ![t] = Some([raised |-> FALSE, ret |-> TRUE])]
    /\ UNCHANGED <<procs, current_transcription_process, cancellation_requested,
                   canc_case,
                   busVars>>
    /\ UNCHANGED notOverlap

\* ------------------------------------------------------------------ system
InitJob ==
    /\ procs = <<>>
    /\ current_transcription_process = None
    /\ cancellation_requested = FALSE
    /\ txtFile = None
    /\ toWrite = [ch \in Channels |-> 0]
    /\ pipe = [ch \in Channels |-> <<>>]
    /\ rd = [ch \in Channels |-> "idle"]
    /\ output_queue = <<>>
    /\ putLog = [ch \in Channels |-> <<>>]
    /\ streams_done = [ch \in Channels |-> FALSE]
    /\ stdout = <<>>
    /\ stderr = <<>>
    /\ pc = "start"
    /\ process = None
    /\ timedOut = FALSE
    /\ events = <<>>
    /\ result = None
    /\ request \in Requests
    /\ config_chunking \in ChunkingSections
    /\ request.has_chunking <=> config_chunking # "absent"
    /\ chunkable \in BOOLEAN
    /\ call_args = None
    /\ jobKind = ChunkDecision(config_chunking, chunkable)
    /\ nChunks \in 0..MaxChunks
    /\ nChunks = 0 <=> jobKind = "single"
    /\ chunkIdx = 0
    /\ chunk_transcriptions = <<>>
    /\ chunkResults = <<>>
    /\ jobResult = None
    /\ cpc = "idle"
    /\ cancelCalls = 0
    /\ pendingBefore = FALSE
    /\ cTarget = None
    /\ cOps = <<>>
    /\ cancelLog = <<>>
    /\ cleanup = <<>>
    /\ chunkCleanups = 0
    /\ converters = 0
    /\ chunksCreated = 0
    /\ all_segments = <<>>
    /\ recognized = <<>>
    /\ progress_websockets = {}
    /\ last_progress_data = None
    /\ hpc = "idle"
    /\ current_sockets = {}
    /\ message = None
    /\ ws = [o \in Observers |-> "new"]
    /\ alive = [o \in Observers |-> TRUE]
    /\ received = [o \in Observers |-> <<>>]
    /\ sent_events = <<>>
    /\ joinedAt = [o \in Observers |-> 0]
    /\ snapshot = {}
    /\ failed = {}
    /\ removed = {}
    /\ canc_pc = [t \in Cancellers |-> "idle"]
    /\ canc_out = [t \in Cancellers |-> None]
    /\ canc_case = [t \in Cancellers |-> None]
    /\ handlers = ImportWeb
    /\ to_invoke = <<>>

\* a job that renders no subtitles and merges no texts
Init ==
    /\ InitJob
    /\ segments = <<>>
    /\ srt_max_chars = DefaultChars
    /\ srt_max_duration = DefaultDuration
    /\ srt_content = None
    /\ chunk_texts = <<>>
    /\ merged_text = None

\* the caller's invocation, with the outcome of an Opus conversion
Caller == \E conv_ok \in BOOLEAN : JobStart(conv_ok)

\* the child: it writes, ends by itself, or dies of a signal
Child ==
    \/ \E ch \in Channels, line \in Lines : ChildWrite(ch, line)
    \/ \E p \in 1..Len(procs), code \in {0, 1}, wrote \in BOOLEAN : ChildExit(p, code, wrote)
    \/ \E p \in 1..Len(procs), sig \in {SIGTERM, SIGKILL} : ChildSignalled(p, sig)

\* a child that writes nothing on either channel
QuietChild ==
    \/ \E p \in 1..Len(procs), code \in {0, 1}, wrote \in BOOLEAN : ChildExit(p, code, wrote)
    \/ \E p \in 1..Len(procs), sig \in {SIGTERM, SIGKILL} : ChildSignalled(p, sig)

Readers ==
    \/ \E ch \in Channels : ReaderForward(ch)
    \/ \E ch \in Channels, raised \in BOOLEAN : ReaderEnd(ch, raised)

\* the readers of a quiet child: end-of-stream, or a read error
QuietReaders == \E ch \in Channels, raised \in BOOLEAN : ReaderEnd(ch, raised)

\* one recognizer invocation up to the end of the consumer loop
Pump(lines) ==
    \/ \E cleanup_raised \in BOOLEAN : TAEnter(cleanup_raised)
    \/ \E nOut \in 0..lines, nErr \in 0..lines : Popen(nOut, nErr)
    \/ SetSlot
    \/ LoopGet
    \/ ConsumeItem
    \/ GetEmpty
    \/ EmptyHandler
    \/ LoopExit

\* the wall-clock timeout of the consumer loop
Timeout ==
    \/ LoopTimeout
    \/ TimeoutWaitDone
    \/ TimeoutKill
    \/ TimeoutWait2
    \/ \E raised1 \in BOOLEAN, raised2 \in BOOLEAN : TimeoutFail(raised1, raised2)

\* the chunk loop of transcribe_audio_chunked
Chunked ==
    \/ ChunkBegin
    \/ \E segs \in SegmentLists : ChunkReturn(segs)
    \/ \E raise_at \in RaisePoints, cleanup_raised \in BOOLEAN :
          ChunkedFinish(raise_at, cleanup_raised)

Cancel ==
    \/ CancelCall
    \/ CancelCheck
    \/ CancelTerminate
    \/ CancelWaitDone
    \/ CancelKill
    \/ CancelWait2
    \/ CancelClear
    \/ CancelPublish

Evaluation == \E raises \in BOOLEAN, cleanup_raised \in BOOLEAN : AfterLoop(raises, cleanup_raised)

\* everything together
\* progress_event_handler, run for each published event
Handler ==
    \/ \E empty \in BOOLEAN : Publish(empty)
    \/ \E o \in Observers : HandlerSend(o)

\* the /ws/progress connections and their clients
Websockets ==
    \/ \E o \in Observers : Accept(o)
    \/ \E o \in Observers : Join(o)
    \/ \E o \in Observers : Break(o)
    \/ \E o \in Observers : Leave(o)

Next ==
    \/ Child \/ Readers \/ Caller \/ Pump(MaxLines) \/ Timeout \/ Evaluation
    \/ Chunked \/ Cancel \/ Handler \/ Websockets

Spec == Init /\ [][Next]_vars

\* A single-shot job, its child writing up to MaxLines lines per channel, the
\* readers possibly failing, the timeout possibly firing; nobody cancels.
NextPump ==
    \/ Child \/ Readers \/ Caller \/ Pump(MaxLines) \/ Timeout \/ Evaluation

InitSingle ==
    Init /\ jobKind = "single" /\ request = ValidRequest /\ config_chunking = "on"

SpecPump == InitSingle /\ [][NextPump]_vars

\* the steps of the job thread of a single-shot job
JobThread == Caller \/ Pump(MaxLines) \/ Timeout \/ Evaluation

\* The same under fair scheduling: the job thread and the reader threads keep
\* running (a reader with a line or at end-of-stream takes its step; a read error is
\* never owed), the wall clock advances, so that a loop that keeps coming back to
\* line 750 eventually finds the timeout elapsed, and the kernel ends a child that
\* was sent SIGKILL. The child itself owes nothing: it may hang for ever.
FairPump ==
    /\ WF_vars(JobThread)
    /\ SF_vars(LoopTimeout)
    /\ \A ch \in Channels : WF_vars(ReaderForward(ch)) /\ WF_vars(ReaderEnd(ch, FALSE))
    /\ WF_vars(\E p \in 1..Len(procs) : ChildSignalled(p, SIGKILL))

SpecPumpFair == InitSingle /\ [][NextPump]_vars /\ FairPump

\* A chunked job of quiet children, the timeout possibly firing; nobody cancels.
NextChunked ==
    \/ QuietChild \/ QuietReaders \/ Caller \/ Pump(0) \/ Timeout \/ Evaluation
    \/ Chunked

InitChunked ==
    Init /\ jobKind = "chunked" /\ request = ValidRequest /\ config_chunking = "on"

SpecChunked == InitChunked /\ [][NextChunked]_vars

\* the evaluation and the chunk loop when no cleanup attempt fails
CleanEvaluation == \E raises \in BOOLEAN : AfterLoop(raises, FALSE)

CleanChunked ==
    \/ ChunkBegin
    \/ ChunkReturn(<<>>)
    \/ \E raise_at \in RaisePoints : ChunkedFinish(raise_at, FALSE)

\* A single-shot or chunked job of quiet children and a thread that calls
\* cancel_current_transcription up to MaxCancels times; the timeout never fires
\* and no cleanup attempt fails.
NextCancel ==
    \/ QuietChild \/ QuietReaders \/ Caller \/ Pump(0) \/ CleanEvaluation
    \/ CleanChunked \/ Cancel

InitValid == Init /\ request = ValidRequest /\ config_chunking = "on"

SpecCancel == InitValid /\ [][NextCancel]_vars

\* the readers of a quiet child that never fail: they end at end-of-stream only
EofReaders == \E ch \in Channels : ReaderEnd(ch, FALSE)

\* The same with readers that never fail, so that the job leaves the consumer loop
\* only after its child has exited.
NextCancelEof ==
    \/ QuietChild \/ EofReaders \/ Caller \/ Pump(0) \/ CleanEvaluation
    \/ CleanChunked \/ Cancel

SpecCancelEof == InitValid /\ [][NextCancelEof]_vars

\* a quiet child that ends by itself
ExitingChild ==
    \E p \in 1..Len(procs), code \in {0, 1}, wrote \in BOOLEAN : ChildExit(p, code, wrote)

\* A job on any request (single-shot or chunked) of quiet children whose readers
\* never fail; no timeout, nobody cancels.
NextRequest ==
    \/ ExitingChild \/ EofReaders \/ Caller \/ Pump(0) \/ Evaluation \/ Chunked

SpecRequest == Init /\ [][NextRequest]_vars

\* The progress handler and the /ws/progress connections of the web module, on one
\* event loop: coroutines interleave at their awaits. No job runs.
NextWeb == Handler \/ Websockets

SpecWeb == InitSingle /\ [][NextWeb]_vars

\* ------------------------------------------------------------ the handlers of the bus
notBus == <<progress_websockets, ws, alive, received, joinedAt, failed, removed,
            configVars, callerVars, formatVars, mergeVars, overlapVars>>

\* web lines 1310-1319: start_web_server subscribes progress_event_handler for
\* PROGRESS_UPDATE and runs the server; it is called once, uvicorn.run() blocks
StartWebServer ==
    /\ handlers = ImportWeb
    /\ handlers' = subscribe(handlers, "PROGRESS_UPDATE", "progress_event_handler")
    /\ UNCHANGED <<to_invoke, webVars, configVars, callerVars, formatVars, mergeVars,
                   overlapVars>>
    /\ UNCHANGED notWeb

\* lines 87-116 (133-145): one call of progress_event_handler with a payload, up
\* to its first await: it retains the payload and copies the registry
HandlerCalled(payload) ==
    /\ last_progress_data' = Some(payload)
    /\ message' = Some(payload)
    /\ snapshot' = progress_websockets
    /\ current_sockets' = progress_websockets
    /\ hpc' = IF progress_websockets = {} THEN "idle" ELSE "sending"

\* publish() of an event of a kind: the bus calls the first handler subscribed for
\* the kind and keeps the others to call after it
BusPublish(kind, empty) ==
    /\ HandlerIdle
    /\ to_invoke = <<>>
    /\ Len(sent_events) < MaxEvents
    /\ handlers[kind] # <<>>
    /\ LET payload == [id |-> Len(sent_events) + 1, empty |-> empty] IN
       /\ sent_events' = Append(sent_events, payload)
       /\ HandlerCalled(payload)
    /\ to_invoke' = Tail(handlers[kind])
    /\ UNCHANGED handlers
    /\ UNCHANGED notBus
    /\ UNCHANGED notWeb

\* publish(), continued: the next handler subscribed for the kind is called with
\* the same event
BusInvoke ==
    /\ HandlerIdle
    /\ to_invoke # <<>>
    /\ HandlerCalled(sent_events[Len(sent_events)])
    /\ to_invoke' = Tail(to_invoke)
    /\ UNCHANGED <<handlers, sent_events>>
    /\ UNCHANGED notBus
    /\ UNCHANGED notWeb

\* the web module's handler behind the bus, with the server started or not
Bus ==
    \/ StartWebServer
    \/ \E kind \in EventKinds, empty \in BOOLEAN : BusPublish(kind, empty)
    \/ BusInvoke
    \/ \E o \in Observers : HandlerSend(o)

NextBus == Bus \/ Websockets

SpecBus == InitSingle /\ [][NextBus]_vars

\* The calls of transcribe_audio by the web API and by the command line, for every
\* way the subtitle parameters can be given. No job runs.
NextCallers ==
    \/ \E chars \in Given(CharsTried), duration \in Given(DurationsTried) :
          WebCall(chars, duration)
    \/ \E chars \in Given(CharsTried), duration \in Given(DurationsTried) :
          CliCall(chars, duration)

SpecCallers == InitSingle /\ [][NextCallers]_vars

\* The rendering of a transcript's segments as subtitle cues, for every transcript
\* of up to MaxSrtSegments segments and several bounds. No job runs.
InitSrt ==
    /\ InitJob /\ jobKind = "single" /\ request = ValidRequest /\ config_chunking = "on"
    /\ segments \in SegmentInputs(MaxSrtSegments, 0)
    /\ srt_max_chars \in {MinChars, DefaultChars}
    /\ srt_max_duration \in {MinDuration, DefaultDuration, MaxDuration}
    /\ srt_content = None
    /\ chunk_texts = <<>>
    /\ merged_text = None

NextSrt == WriteSrt

SpecSrt == InitSrt /\ [][NextSrt]_vars

\* The merge of the chunk texts of a chunked job, for every list of up to MaxTexts
\* texts. No job runs.
InitMerge ==
    /\ InitJob /\ request = ValidRequest /\ config_chunking = "on"
    /\ jobKind = "chunked" /\ nChunks = MaxChunks
    /\ segments = <<>>
    /\ srt_max_chars = DefaultChars
    /\ srt_max_duration = DefaultDuration
    /\ srt_content = None
    /\ chunk_texts \in ChunkTextLists
    /\ merged_text = None

NextMerge == MergeChunkTexts

SpecMerge == InitMerge /\ [][NextMerge]_vars

\* the two concurrent cancel calls
CancellerSteps(t) ==
    \/ CancellerCall(t)
    \/ CancellerTest(t)
    \/ CancellerPoll(t)
    \/ CancellerTerminate(t)
    \/ CancellerWait(t)
    \/ CancellerWait2(t)
    \/ CancellerClear(t)
    \/ CancellerPublish(t)

\* A single-shot job of a quiet child and two threads that each call
\* cancel_current_transcription once, at any time; no timeout.
NextOverlap ==
    \/ QuietChild \/ EofReaders \/ Caller \/ Pump(0) \/ CleanEvaluation
    \/ \E t \in Cancellers : CancellerSteps(t)

SpecOverlap == InitSingle /\ [][NextOverlap]_vars

\* A single-shot job of a quiet child on a valid request, with every way it can
\* end: the child exits or is signalled, a reader fails, the timeout fires, writing
\* the output raises, a cleanup fails; a thread calls cancel_current_transcription
\* (its poll() is the only one that lets the job see an exit code of 0).
NextTerminal ==
    \/ QuietChild \/ QuietReaders \/ Caller \/ Pump(0) \/ Timeout \/ Evaluation \/ Cancel

SpecTerminal == InitSingle /\ [][NextTerminal]_vars

\* ------------------------------------------------------------------ claims
\* the job has returned to its caller, and what it returned
JobReturned == pc = "done"
Outcome == IF jobKind = "single" THEN Val(result) ELSE Val(jobResult)

\* the non-sentinel items of a reader's put history
RECURSIVE LinesOf(_)
LinesOf(log) ==
    IF log = <<>> THEN <<>>
    ELSE IF Head(log) = None THEN LinesOf(Tail(log))
    ELSE <<Val(Head(log))>> \o LinesOf(Tail(log))

Other(ch) == IF ch = "stdout" THEN "stderr" ELSE "stdout"

\* C1: a single-shot job whose recognizer exited by itself with code 0 and wrote
\* its transcript (no timeout, no error while writing the requested output)
\* returns success=true, and a job is reported as a process failure only when the
\* recognizer's exit code is non-zero.
C1_ExitZeroSucceeds ==
    (JobReturned /\ jobKind = "single" /\ Exited(Val(process))) =>
        LET p == procs[Val(process)] IN
        /\ (p.code = 0 /\ p.wrote /\ ~timedOut /\ Outcome.error # Some("exception"))
              => Outcome.success
        /\ Outcome.error = Some("process") => p.code # 0

\* C8: a reader that has a line to forward, or whose channel is at end-of-stream,
\* can always take its step, whatever the queue holds, whatever the consumer has
\* read and whatever the state of the other channel.
C8_ReadersNeverBlock ==
    \A ch \in Channels :
        rd[ch] = "run" =>
            /\ pipe[ch] # <<>> => ENABLED ReaderForward(ch)
            /\ (pipe[ch] = <<>> /\ Exited(Val(process))) => ENABLED ReaderEnd(ch, FALSE)

\* C8 witness: the consumer has read nothing yet, the queue already holds a line and
\* the sentinel of one channel, and the other channel's reader has a line to forward.
C8_Witness ==
    \E ch \in Channels :
        /\ pc = "get" /\ rd[ch] = "run" /\ pipe[ch] # <<>>
        /\ Len(output_queue) >= 2
        /\ stdout = <<>> /\ stderr = <<>>
        /\ \A c \in Channels : ~streams_done[c]

\* C9: each reader puts at most one sentinel, a reader that has ended has put
\* exactly one, and the sentinel is the last item it put.
C9_OneSentinelLast ==
    \A ch \in Channels :
        LET log == putLog[ch]
            sentinels == {i \in 1..Len(log) : log[i] = None}
        IN /\ Cardinality(sentinels) <= 1
           /\ rd[ch] = "dead" <=> Cardinality(sentinels) = 1
           /\ sentinels # {} => log[Len(log)] = None

\* C9 witness: a reader ended on a read error (its pipe still holds a line), put
\* its sentinel, and the other channel was drained to its end: the loop has ended.
C9_Witness ==
    \E ch \in Channels :
        /\ pc = "after"
        /\ rd[ch] = "dead" /\ pipe[ch] # <<>>
        /\ putLog[ch] = <<None>>
        /\ Len(putLog[Other(ch)]) >= 2

\* C10: when the consumer loop has ended without a timeout, both channels are
\* marked done, the queue is empty and the stdout and stderr records hold every
\* line the readers put, in order.
C10_LoopEndsDrained ==
    (pc = "after" /\ ~timedOut) =>
        /\ \A ch \in Channels : streams_done[ch]
        /\ output_queue = <<>>
        /\ stdout = LinesOf(putLog["stdout"])
        /\ stderr = LinesOf(putLog["stderr"])

\* C10 witness: the loop has ended with a line consumed from each channel.
C10_Witness ==
    pc = "after" /\ ~timedOut /\ Len(stdout) >= 1 /\ Len(stderr) >= 1

\* the chunks whose transcribe_audio call returned success=false
FailedChunks == {i \in 1..Len(chunkResults) : ~chunkResults[i].success}

\* the texts of the successful chunks, in chunk order
RECURSIVE SuccessfulTexts(_)
SuccessfulTexts(rs) ==
    IF rs = <<>> THEN <<>>
    ELSE (IF Head(rs).success THEN <<Head(rs).text>> ELSE <<>>) \o SuccessfulTexts(Tail(rs))

\* how many events of a kind were published for a chunk
CountEvents(type, chunk) ==
    Cardinality({k \in 1..Len(events) :
                    events[k].type = type /\ events[k].chunk = Some(chunk)})

\* a chunked job has returned with some but not all of its chunks failed
PartialFailure ==
    /\ JobReturned /\ jobKind = "chunked"
    /\ FailedChunks # {} /\ FailedChunks # 1..nChunks

\* one chunk-failed event for each failed chunk, none for a successful chunk
ChunkFailedEventsExact ==
    \A i \in 1..nChunks :
        CountEvents("CHUNK_FAILED", i) = IF i \in FailedChunks THEN 1 ELSE 0

C7_OneChildAtATime ==
    /\ Cardinality({p \in 1..Len(procs) : Running(p)}) <= 1
    /\ \A p \in 1..Len(procs) : procs[p].chunk = p /\ Len(chunkResults) >= p - 1

\* C2: a call that found a live process called terminate() first and returned true;
\* the next call, finding no live process, returns the flag the first call set
\* (true), performs no process operation and publishes no event; the cancellation
\* events published are exactly those of the calls that found a live process.
C2_SecondCancelIsNoOp ==
    /\ \A i \in 1..Len(cancelLog) :
          LET c == cancelLog[i] IN
          /\ c.target # None =>
                /\ c.ret = TRUE
                /\ c.ops # <<>> /\ Head(c.ops)[1] = "terminate"
          /\ (i > 1 /\ cancelLog[i - 1].target # None /\ c.target = None) =>
                /\ c.pending = TRUE /\ c.ret = c.pending
                /\ c.ops = <<>> /\ c.published = 0
    /\ Cardinality({k \in 1..Len(events) : events[k].type = "TRANSCRIPTION_CANCELLED"})
          = Cardinality({i \in 1..Len(cancelLog) : cancelLog[i].target # None})

\* C2 witness: two calls have returned, the first found the job's process alive,
\* the second found none.
C2_Witness ==
    /\ Len(cancelLog) = 2
    /\ cancelLog[1].target # None /\ cancelLog[1].ret
    /\ cancelLog[2].target = None /\ cancelLog[2].ret

\* C3: a call that finds no live process performs no process operation and
\* returns whether a cancellation was pending before the call (false if none was).
C3_ReturnsWhetherPending ==
    \A i \in 1..Len(cancelLog) :
        cancelLog[i].target = None =>
            /\ cancelLog[i].ops = <<>>
            /\ cancelLog[i].ret = cancelLog[i].pending

\* the operations of a call on process t: terminate, bounded wait, and kill with a
\* second wait only after the bounded wait expired
GracefulOps(t) == << <<"terminate", t>>, <<"wait", t>> >>
ForcedOps(t) == << <<"terminate", t>>, <<"wait", t>>, <<"kill", t>>, <<"wait", t>> >>

\* C4: a call that found a live process set the flag, terminated it, waited, killed
\* it only after the wait expired, published exactly one event, and when it returns
\* that process has exited and the slot is empty.
C4_CancelCompletes ==
    \A i \in 1..Len(cancelLog) :
        LET c == cancelLog[i] IN
        c.target # None =>
            /\ cancellation_requested
            /\ c.ops \in {GracefulOps(Val(c.target)), ForcedOps(Val(c.target))}
            /\ c.published = 1
            /\ c.targetExited
            /\ c.slot = None

\* a child that died of a signal (in SpecCancel only cancel sends signals)
Cancelled(p) == Exited(p) /\ procs[p].code < 0

\* C5: once cancel has terminated a child of the job, no further child is started
\* and the job does not return success=true.
C5_CancelFailsJob ==
    \A p \in 1..Len(procs) :
        Cancelled(p) =>
            /\ Len(procs) = p
            /\ JobReturned => ~Outcome.success

\* the job thread is in the consumer loop (lines 747-822, the timeout branch included)
InLoop == pc \in {"loop", "get", "empty", "to_wait", "to_wait2", "to_fail"}

\* both channels are marked done and the queue is empty
Drained == (\A ch \in Channels : streams_done[ch]) /\ output_queue = <<>>

\* termination alone: under fair scheduling the job thread always leaves the loop
C11_LoopTerminates == InLoop ~> ~InLoop

\* C11: under fair scheduling of the readers and the consumer, the consumer loop is
\* always left, and it is left because both channels are done and the queue is
\* empty or because the wall-clock timeout elapsed.
C11_LoopTerminatesDrainedOrTimedOut == InLoop ~> (~InLoop /\ (Drained \/ timedOut))

\* C12: a transcribe_audio call whose wall-clock timeout fired sent terminate to its
\* child (unless the child was found exited), killed it only after terminate and
\* only while it was still running, attempted cleanup, and returned success=false
\* with the timeout error, whether or not a cleanup attempt raised; its child is not
\* alive then.
C12_TimeoutFailsJob ==
    process # None =>
        LET p == procs[Val(process)] IN
        /\ pc \in {"to_wait", "to_wait2", "to_fail"} =>
              timedOut /\ (SIGTERM \in p.sigs \/ p.st = "exited")
        /\ pc = "to_wait2" => SIGKILL \in p.sigs \/ p.st = "exited"
        /\ pc = "to_fail" => p.st = "exited"
        /\ SIGKILL \in p.sigs => SIGTERM \in p.sigs
        /\ (result # None /\ timedOut) =>
              /\ Val(result) = TranscriptionResult(FALSE, Some("timeout"), None)
              /\ p.st = "exited"
              /\ cleanup # <<>>

\* C12 witness: a timed-out job has returned after killing a child that ignored
\* terminate, with a cleanup attempt that raised.
C12_Witness ==
    /\ JobReturned /\ timedOut /\ jobKind = "single"
    /\ SIGKILL \in procs[Val(process)].sigs
    /\ cleanup # <<>> /\ cleanup[1]

\* C13: a transcribe_audio call whose child exited with code 0 without writing its
\* transcript fails with the missing-output error, and the text of a successful
\* call is the transcript its own child wrote, never one left in the shared working
\* directory by an earlier invocation.
C13_OwnTranscriptOnly ==
    (result # None /\ process # None) =>
        LET r == Val(result)
            p == procs[Val(process)]
        IN /\ r.success => r.text = Some(Val(process))
           /\ (p.returncode = Some(0) /\ ~p.wrote /\ ~timedOut) =>
                 r.error = Some("missing_output")

\* C14: no exception escapes to the caller of transcribe_audio: the job thread
\* never ends in an exception, whatever the request (unknown output format or
\* model name, no output or chunking section, failing duration probe, ...).
C14_NoExceptionEscapes == pc # "raised"

\* a terminal outcome: the call has returned a result, or an exception has escaped
Terminal == pc \in {"done", "raised"}

C16_MissingBinaryFailsBeforeWork ==
    ~request.binary_found =>
        /\ procs = <<>> /\ converters = 0
        /\ chunksCreated = 0
        /\ JobReturned => ~Outcome.success

\* C17: a chunked job that has split its input and has reached a terminal outcome
\* has requested chunk cleanup.
C17_ChunkCleanupOnEveryOutcome ==
    (Terminal /\ chunksCreated > 0) => chunkCleanups >= 1

\* the segments the recognizer produced for the chunks 1..n, each shifted by its
\* chunk's start_time, in chunk order (a failed chunk has none)
RECURSIVE ShiftedSegments(_)
ShiftedSegments(n) ==
    IF n = 0 THEN <<>>
    ELSE ShiftedSegments(n - 1) \o Shift(recognized[n], start_time(n))

\* C18: the segment list of a successful chunked job's result is the concatenation,
\* in chunk order, of the segments the recognizer produced for each successful
\* chunk, each shifted by the chunk's start_time.
C18_SegmentsShiftedInChunkOrder ==
    (jobKind = "chunked" /\ JobReturned /\ Outcome.success) =>
        all_segments = ShiftedSegments(Len(recognized))

\* the payload of the running or last broadcast was delivered to websocket o
Delivered(o) == \E i \in 1..Len(received[o]) : received[o][i] = Val(message)

\* C19: a send failure during a broadcast removes only the failing observer, the
\* event is still sent to every other observer of the handler's copy of the
\* registry, also when observers register or disconnect during the broadcast, and
\* nothing is raised to the publisher.
C19_SendFailureIsolated ==
    /\ hpc # "raised"
    /\ removed \subseteq failed
    /\ \A o \in failed : ~alive[o]
    /\ \A o \in snapshot \ current_sockets : Delivered(o) \/ o \in failed
    /\ hpc = "idle" => current_sockets = {}

\* C19 witness: a broadcast has ended in which one observer's send failed, another
\* observer received the event, and a third registered while it was in progress.
C19_Witness ==
    /\ hpc = "idle" /\ message # None
    /\ \E o1 \in snapshot, o2 \in snapshot, o3 \in Observers \ snapshot :
          /\ o1 \in failed /\ o1 \notin progress_websockets
          /\ o2 # o1 /\ Delivered(o2) /\ o2 \in progress_websockets
          /\ ws[o3] = "listening" /\ joinedAt[o3] = Val(message).id

\* C20: the first message of an observer that joined after some event was published
\* is the payload of the most recent event published before it joined, and it has
\* it as soon as it has joined.
C20_JoinReplaysLatest ==
    \A o \in Observers :
        (ws[o] = "listening" /\ joinedAt[o] > 0) =>
            /\ received[o] # <<>>
            /\ received[o][1] = sent_events[joinedAt[o]]

C22_ChunkFailureReportedPerChunkOnly ==
    (jobKind = "chunked" /\ JobReturned /\ Outcome.success) =>
        /\ ChunkFailedEventsExact
        /\ \A i \in 1..Len(events) : events[i].type # "TRANSCRIPTION_FAILED"

\* C23: the events published during one job carry the same correlation id, from
\* the first initialization event to the final one: any two events of the job that
\* carry a user_id carry the same value (stated for the events that carry one; the
\* claim also asks every event to carry it).
C23_OneCorrelationId ==
    \A i \in 1..Len(events), j \in 1..Len(events) :
        (events[i].uid # None /\ events[j].uid # None) => events[i].uid = events[j].uid

\* how many lines of a list of consumed lines contain a percentage marker
RECURSIVE MarkerLines(_)
MarkerLines(lines) ==
    IF lines = <<>> THEN 0
    ELSE (IF progress_pattern(Head(lines)) # None THEN 1 ELSE 0) + MarkerLines(Tail(lines))

\* the published PROGRESS_UPDATE events that carry the integer of a marker
PercentageEvents ==
    {k \in 1..Len(events) :
        /\ events[k].type = "PROGRESS_UPDATE"
        /\ \E line \in Lines : progress_pattern(line) # None
                               /\ events[k].progress = progress_pattern(line)}

\* C24: for every consumed line with a percentage marker exactly one PROGRESS_UPDATE
\* event carrying the parsed integer is published, on whichever channel the line
\* arrived, and none for a line without a marker.
C24_OnePercentageEventPerMarker ==
    Cardinality(PercentageEvents) = MarkerLines(stdout) + MarkerLines(stderr)

\* the number of chunks among 1..c that were transcribed successfully
CompletedChunks(c) == Cardinality({i \in 1..c : chunkResults[i].success})

\* C25: the progress value of the chunk-completed event of chunk c is
\* completedChunks / totalChunks as a percentage, completedChunks being the number
\* of chunks transcribed successfully so far; a failed chunk does not advance it.
C25_ProgressCountsCompletedChunks ==
    \A k \in 1..Len(events) :
        events[k].type = "CHUNK_COMPLETED" =>
            LET c == Val(events[k].chunk)
            IN c <= Len(chunkResults) =>
                  events[k].progress = Some((CompletedChunks(c) * 100) \div nChunks)

\* a parameter was passed within [lo, hi], and as the default when none was given
\* or what was given is no number
PassedWithin(given, passed, lo, hi, default) ==
    /\ passed # None
    /\ lo <= Val(passed) /\ Val(passed) <= hi
    /\ given.kind # "num" => Val(passed) = default

\* C26: every caller of transcribe_audio, web API and command line, passes a
\* max_chars within [20,120], 40 when none is given or it cannot be parsed, and a
\* max_duration within [1.0,10.0], 1.5 when none is given or it cannot be parsed.
C26_CallersClampSubtitleParameters ==
    call_args # None =>
        LET c == Val(call_args) IN
        /\ PassedWithin(c.chars, c.srt_max_chars, MinChars, MaxChars, DefaultChars)
        /\ PassedWithin(c.duration, c.srt_max_duration, MinDuration, MaxDuration,
                        DefaultDuration)

\* the words of the input segments, in order
RECURSIVE InputWords(_)
InputWords(segs) ==
    IF segs = <<>> THEN <<>> ELSE Head(segs).text \o InputWords(Tail(segs))

\* the texts of the cues, one after the other
RECURSIVE CueWords(_)
CueWords(cues) ==
    IF cues = <<>> THEN <<>> ELSE Head(cues).text \o CueWords(Tail(cues))

HelloWorld ==
    <<[text |-> <<[w |-> "Hello", len |-> 5], [w |-> "world", len |-> 5]>>,
       start |-> 0, end |-> 20]>>

\* C27: every cue the segmenter produces has a text of at most max_chars
\* characters and lasts at most max_duration, the cues are numbered 1, 2, ... in
\* order, each ends no later than the next begins, and the single segment
\* "Hello world" from 0.0 to 2.0 with max_duration 1.5 gives at least two cues.
C27_CuesWithinBounds ==
    srt_content # None =>
        LET cues == Val(srt_content) IN
        /\ \A i \in 1..Len(cues) :
              /\ TextLen(cues[i].text) <= srt_max_chars
              /\ cues[i].end - cues[i].start <= srt_max_duration
              /\ cues[i].index = i
              /\ cues[i].start <= cues[i].end
        /\ \A i \in 1..(Len(cues) - 1) : cues[i].end <= cues[i + 1].start
        /\ (segments = HelloWorld /\ srt_max_duration = DefaultDuration) => Len(cues) >= 2

\* C28: the texts of the cues, one after the other, are the words of the input
\* segments in their order, none dropped, repeated or moved, also when a word
\* alone is longer than max_chars.
C28_CuesReproduceWords ==
    srt_content # None => CueWords(Val(srt_content)) = InputWords(segments)

C28_Witness ==
    /\ srt_content # None
    /\ Len(Val(srt_content)) >= 2
    /\ \E k \in 1..Len(InputWords(segments)) : InputWords(segments)[k].len > srt_max_chars

\* all the chunk texts one after the other, nothing removed
RECURSIVE Concatenation(_)
Concatenation(texts) ==
    IF texts = <<>> THEN <<>> ELSE Head(texts) \o Concatenation(Tail(texts))

\* text i+1 without its first ks[i] words, for every i
Trimmed(texts, ks) ==
    [i \in 1..Len(texts) |->
        IF i = 1 THEN texts[1] ELSE SubSeq(texts[i], ks[i - 1] + 1, Len(texts[i]))]

\* the first k words of next repeat the last k words of prev
Duplicated(prev, next, k) ==
    /\ k <= Len(prev) /\ k <= Len(next)
    /\ SubSeq(prev, Len(prev) - k + 1, Len(prev)) = SubSeq(next, 1, k)

\* C29: the merged text is the chunk texts in order, each without a lead that
\* repeats the end of the chunk before it, and nothing else is removed; "a storm
\* is coming" and "coming tonight" give "a storm is coming tonight"; when no chunk
\* begins with words that end the chunk before it, the merged text is the plain
\* concatenation, and otherwise it is shorter.
C29_MergeRemovesOnlyOverlap ==
    merged_text # None =>
        LET n == Len(chunk_texts)
            merged == Val(merged_text)
        IN /\ \E ks \in [1..(IF n = 0 THEN 0 ELSE n - 1) -> 0..(MaxTextWords + 2)] :
                 /\ \A i \in 1..(n - 1) : Duplicated(chunk_texts[i], chunk_texts[i + 1], ks[i])
                 /\ merged = Concatenation(Trimmed(chunk_texts, ks))
           /\ chunk_texts = StormTexts => merged = <<"a", "storm", "is", "coming", "tonight">>
           /\ IF \A i \in 1..(n - 1), k \in 1..(MaxTextWords + 2) :
                    ~Duplicated(chunk_texts[i], chunk_texts[i + 1], k)
              THEN merged = Concatenation(chunk_texts)
              ELSE Len(merged) < Len(Concatenation(chunk_texts))

C29_Witness ==
    /\ chunk_texts = StormTexts
    /\ merged_text = Some(<<"a", "storm", "is", "coming", "tonight">>)

\* C30: a chunked job that returned success=true has transcribed at least one of
\* its chunks successfully, and a chunked job all of whose chunks failed returned
\* success=false with an error.
C30_SuccessNeedsASuccessfulChunk ==
    (jobKind = "chunked" /\ JobReturned) =>
        /\ Outcome.success => \E i \in 1..Len(chunkResults) : chunkResults[i].success
        /\ (Len(chunkResults) = nChunks /\ FailedChunks = 1..nChunks)
              => ~Outcome.success /\ Outcome.error # None

\* C31: a cancel call never reports that there is no active process (the else
\* branch of line 106) while a recognizer child of the job is running.
C31_CancelFindsRunningChild ==
    [][(cpc = "check" /\ cpc' = "idle") => ~\E p \in 1..Len(procs) : Running(p)]_vars

\* C32: the current-process slot refers to a process of the job only while the
\* job is running: once the job has returned, with any outcome, the slot is empty.
C32_SlotEmptyAfterJob ==
    JobReturned => current_transcription_process = None

\* both concurrent calls have ended, they overlapped in time, each began while
\* the slot held a live process, and the process did not end by itself
OverlappingCancels ==
    /\ \A t \in Cancellers : canc_pc[t] = "done" /\ Val(canc_case[t]).alive
    /\ \E t \in Cancellers : Val(canc_case[t]).overlaps
    /\ \A p \in 1..Len(procs) : Exited(p) => procs[p].code < 0

\* C33: two cancel calls that overlap in time while a process is alive: neither
\* raises, the process has exited, the slot is empty, and the cancellation event
\* was published exactly once.
C33_OverlappingCancelsSafe ==
    OverlappingCancels =>
        /\ \A t \in Cancellers : ~Val(canc_out[t]).raised
        /\ \A p \in 1..Len(procs) : Exited(p)
        /\ current_transcription_process = None
        /\ Cardinality({k \in 1..Len(events) :
                           events[k].type = "TRANSCRIPTION_CANCELLED"}) = 1

\* C34: after a chunked job has returned, chunking is still enabled in the
\* configuration object the caller passed (it was when the job began), so a later
\* job with that configuration on a chunkable file is chunked again.
C34_ConfigUnchangedByChunkedJob ==
    (jobKind = "chunked" /\ JobReturned) =>
        /\ config_chunking = "on"
        /\ ChunkDecision(config_chunking, TRUE) = "chunked"

\* the chunk-started, chunk-completed and chunk-failed events, in publication order
ChunkEvents ==
    SelectSeq(events, LAMBDA e : e.type \in {"CHUNK_STARTED", "CHUNK_COMPLETED", "CHUNK_FAILED"})

\* C35: in a chunked job the chunk events come as started(1), completed(1) or
\* failed(1), started(2), ... in chunk order, no event that names chunk i follows
\* one that names a later chunk, and a job that has split its input and returned
\* has started and closed every chunk (a failed chunk is followed by the next).
C35_ChunkEventsInOrder ==
    jobKind = "chunked" =>
        /\ \A k \in 1..Len(ChunkEvents) :
              IF k % 2 = 1
              THEN /\ ChunkEvents[k].type = "CHUNK_STARTED"
                   /\ ChunkEvents[k].chunk = Some((k + 1) \div 2)
              ELSE /\ ChunkEvents[k].type \in {"CHUNK_COMPLETED", "CHUNK_FAILED"}
                   /\ ChunkEvents[k].chunk = Some(k \div 2)
        /\ \A i \in 1..Len(events), j \in 1..Len(events) :
              (i < j /\ events[i].chunk # None /\ events[j].chunk # None)
                 => Val(events[i].chunk) <= Val(events[j].chunk)
        /\ (JobReturned /\ chunksCreated > 0) => Len(ChunkEvents) = 2 * nChunks

\* how many events of a kind were published
EventCount(type) == Cardinality({k \in 1..Len(events) : events[k].type = type})

\* C36: a single-shot job that published the transcription-started event and has
\* returned has published exactly one terminal event: transcription-completed
\* when its result has success=true, transcription-failed when it has
\* success=false.
C36_OneTerminalEvent ==
    (jobKind = "single" /\ JobReturned /\ EventCount("TRANSCRIPTION_STARTED") > 0) =>
        /\ EventCount("TRANSCRIPTION_COMPLETED") + EventCount("TRANSCRIPTION_FAILED") = 1
        /\ EventCount("TRANSCRIPTION_COMPLETED") = 1 <=> Outcome.success

\* C36 witness: a job that returned success=true after its started event
C36_Witness ==
    /\ jobKind = "single" /\ JobReturned /\ EventCount("TRANSCRIPTION_STARTED") > 0
    /\ Outcome.success
    /\ EventCount("TRANSCRIPTION_COMPLETED") = 1

\* how often the payload of the id-th published event was sent to an observer
Copies(o, id) == Cardinality({i \in 1..Len(received[o]) : received[o][i].id = id})

\* C37: each published progress or custom event is sent at most once to each
\* connected observer, whether or not start_web_server has subscribed the
\* progress handler a second time
C37_EventSentOnce ==
    \A o \in Observers : \A id \in 1..Len(sent_events) : Copies(o, id) <= 1

\* the progress events of the job that carry a progress value, in publication order
ProgressEvents ==
    SelectSeq(events, LAMBDA e : e.type = "PROGRESS_UPDATE" /\ e.progress # None)

\* C38: within one job every progress value lies in 0..100 and the progress
\* values of successive progress events never decrease
C38_ProgressNeverDecreases ==
    /\ \A k \in 1..Len(ProgressEvents) : Val(ProgressEvents[k].progress) \in 0..100
    /\ \A k \in 1..(Len(ProgressEvents) - 1) :
          Val(ProgressEvents[k].progress) <= Val(ProgressEvents[k + 1].progress)

====
